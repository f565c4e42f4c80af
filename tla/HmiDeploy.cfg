SPECIFICATION Spec
CONSTANTS
  c1 = c1  c2 = c2
  l1 = l1  l2 = l2  l3 = l3
  None = None  Torn = Torn
  Clients <- TwoClients
  Layouts <- ThreeLayouts
  MaxRestarts = 1
INVARIANTS PanelAgreesWithDisk
PROPERTY DeployOrder
