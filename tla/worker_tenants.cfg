SPECIFICATION Spec
CONSTANTS
  a = a  b = b  root = root  ann = ann  r1 = r1  c1 = c1  c2 = c2  c3 = c3
  None = None  Unscoped = Unscoped  Missing = Missing  Unset = Unset
  Tenants <- TwoTenants
  Default <- a
  Users <- TwoUsers
  Home <- HomeOf
  Requests <- NoRequests
  Certificates <- ThreeCertificates
  Owner <- OwnerOf
INVARIANT ToldMeansExpired
