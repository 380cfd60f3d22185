SPECIFICATION Spec
CONSTANTS
  p1 = p1
  p2 = p2
  p3 = p3
  Emails = {"e1"}
  Passwords = {"w1", "w2"}
  Pages = {p1, p2, p3}
  MaxAccounts = 2
  MaxLinks = 2
  None = None
SYMMETRY PageSymmetry
PROPERTIES OneAccountPerEmail PasswordsByLink DeadLinksStayDead
