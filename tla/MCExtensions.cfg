\* Two extensions that offer the same item, with or without one of a registry that
\* the core does not have; two starts in all, one of them slow.
CONSTANTS
  a = a
  b = b
  itemX = itemX
  itemY = itemY
  None = None
  Extensions = {a, b}
  Name <- OwnName
  Items = {itemX, itemY}
  Broadcasts = {{itemX}, {itemX, itemY}}
  Unknown = {itemY}
  MaxStarts = 2
  MaxSlow = 1
SPECIFICATION ExtensionSpec
INVARIANTS
  RoutesHaveOwner
  LiveIsKept
PROPERTY
  GoneIsRemoved
