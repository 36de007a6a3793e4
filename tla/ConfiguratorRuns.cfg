CONSTANTS
  a = a
  o = o
  hl = hl
  m = m
  g = g
  n0 = n0
  broken = broken
  fec = fec
  vrb = vrb
  vfio = vfio
  stub = stub
  none = none
  own = own
  vrb1 = vrb1
  vrb2 = vrb2
  nofile = nofile
  half = half
  Card <- MCCard
  Worker = {fec, vrb}
  Requests <- MCRequests
  Config <- MCConfig
  NoConfig = n0
  Broken = broken
  VFAmount <- MCVFAmount
  PFDriver <- MCPFDriver
  VfioPci = vfio
  NoDriver = none
  FFTLut <- MCFFTLut
  NoFile = nofile
  Half = half
  DefaultWindows <- MCDefaultWindows
  WrongSection = {m}
  FaultPlans <- MCFaultPlans
SPECIFICATION Spec
INVARIANTS TypeOK ResetsQuietCards OwnWindows
PROPERTY KeepsContract
