SPECIFICATION Spec
CONSTANTS
  c1 = c1  c2 = c2  h1 = h1  h2 = h2
  Certs <- OneCert
  Handlers <- TwoHandlers
SYMMETRY Symmetry
INVARIANTS TypeOK MarksAgree
PROPERTY RenewalReactivates
