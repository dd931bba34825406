SPECIFICATION Spec
CONSTANTS
  c1 = c1
  c2 = c2
  c3 = c3
  Clients = {c1, c2}
  HostKinds = {"domain"}
  Together <- TwoDomains
  RelayInterests <- FewInterests
  proxy_fd_6 = 0
  proxy_fd_4 = 1
  ItemsMax = 6
  FdMax = 5
SYMMETRY Symmetry
PROPERTY Isolated
