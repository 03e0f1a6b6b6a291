SPECIFICATION FairSpec
PROPERTIES ImplementsCoin RpcReturns
CONSTANTS
  Word = 65536
  TargetTime = 30
  MaxHash = 1000
  StartReward = 9
  FloorReward = 2
  Era = 2
  Hash = {1}
  Tx = {t1, t2, t3}
  Addr <- MCAddr
  Sender <- MCSender
  Receiver <- MCReceiver
  Amount <- MCAmount
  ZeroAddr = zero
  GenesisAddr = gen
  GenesisAmount = 8
  GenesisTime = 1000
  Times = {1030}
  CoinbaseSig = coinbase
  Coin = 64
  NumTxMod = 2
  TxPerBlock = 2
  NoRow = norow
  Payee = {bob}
  MixedAddr = bob
  Requests = {"getblocktemplate", "status", "mining/start", "wallet/tx"}
  MaxCrashes = 0
  zero = zero
  gen = gen
  bob = bob
  mixed = mixed
  t1 = t1
  t2 = t2
