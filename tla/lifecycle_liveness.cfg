SPECIFICATION FairSpec
CONSTANTS
  c1 = c1  c2 = c2  h1 = h1  h2 = h2
  Certs <- OneCert
  Handlers <- OneHandler
PROPERTY DueExpires
