CONSTANTS
  ann = ann  bob = bob  c1 = c1  c2 = c2  NoChat = NoChat
  Accounts = {ann, bob}
  Chats = {c1, c2}
  Tasks = {"s"}
  MaxCode = 3
SPECIFICATION Spec
INVARIANTS AsLinked SentToLinked
PROPERTIES LatestOnly
SYMMETRY MCSymmetry
