SPECIFICATION ServiceSpec
CONSTANTS
  p1 = p1  p2 = p2  p3 = p3  p4 = p4
  a = a  b = b  n1 = n1  n2 = n2  t1 = t1  t2 = t2  l1 = l1  l2 = l2  x = x  y = y  s1 = s1  s2 = s2
  Parts = {"trusted"}
  Calls = {p1, p2, p3, p4}  MaxCalls = 2
  Sizes = {1, 2}  MaxRequests = 2  MaxWork = 2  Concurrency = 1
  Deadline = 2  Platform = 3  Lease = 4  Window = 5
  MaxCas = 3  MaxThrottled = 1  Delay = 1  MaxTime = 6  None = None
  Operations = {p1, p2, p3, p4}
  Users = {a, b}  Names = {n1, n2}  Tags = {t1, t2}  Labels = {l1, l2}
  MaxActiveTags = 1  MaxActiveFavorites = 1
  Shares <- ShareVersions  RequestScenes <- RevivalScenes  Nothing = Nothing
  E1Calls = {p1, p2, p3, p4}
  Uids = {a, b}  Handles = {n1, n2}  Subjects = {s1, s2}
  RateLimit = 2  RateWindow = 2  Validity = 8
  AuthorityScenes <- ServiceScenes  Absent = Absent
SYMMETRY CallSymmetry
INVARIANT TagLimit
CHECK_DEADLOCK FALSE
