SPECIFICATION RefreshSpec
CONSTANT MaxResizes = 1
PROPERTY DrawsReachScreen
