CONSTANTS
  Tags = {"allreduce", "batchsendrecv"}
  Incremental = {"batchsendrecv"}
  Ranks = {r0, r1, r2}
  Me = r0
  Handles = {h1, h2}
  NoCtx = NoCtx
  MaxCalls = 5
  MaxComms = 2

SPECIFICATION Spec

INVARIANTS
  TypeOK
  HostCacheMirrorsDevice
  KernelServed
