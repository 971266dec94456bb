SPECIFICATION Spec
CONSTANTS
  u1 = u1  c1 = c1  o1 = o1  o2 = o2
  p1 = p1  p2 = p2  h1 = h1  h2 = h2
  None = None
  Users <- OneUser
  Courses <- OneCourse
  CertCourses <- OneCourse
  Orders <- TwoOrders
  PaymentIds <- TwoPayments
  Handlers <- TwoHandlers
SYMMETRY Symmetry
INVARIANTS TypeOK GrantedOnce NoPaymentSwallowed ApprovedMeansDelivered
PROPERTIES PurchaseSpec ProgressWipedByRenewalOnly
