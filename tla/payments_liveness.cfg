SPECIFICATION NoticeSpec
CONSTANTS
  u1 = u1  c1 = c1  o1 = o1
  p1 = p1  p2 = p2  h1 = h1
  None = None
  Users <- OneUser
  Courses <- OneCourse
  CertCourses <- OneCourse
  Orders <- OneOrder
  PaymentIds <- TwoPayments
  Handlers <- OneHandler
PROPERTIES NotifiedIsDelivered PolledIsDelivered
