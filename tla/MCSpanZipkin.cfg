CONSTANTS
  hJaeger = hJaeger
  hOther = hOther
  w1 = w1
  w2 = w2
  j1 = j1
  j2 = j2
  j3 = j3
  z1 = z1
  z2 = z2
  Producers = {hJaeger, hOther}
  Consumers = {w1, w2}
  Items = {j1, j2, j3, z1, z2}
  FilterRejects = {j2}
  Unnamed = {j1}
  NoItem = NoItem
  NoRequest = NoRequest
  Capacity = 1
  BusyOptions = {TRUE, FALSE}
  Requests <- MCZipkinRequests
SPECIFICATION Spec
INVARIANT ZipkinAnswersEachSpan
