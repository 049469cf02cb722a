\* Two lists and three entries: every list can be empty, hold its only entry,
\* or have an entry in the middle, while the other one is in use.
\* Three calls of Feedback on two nodes let a result arrive before, during and
\* after a drain and an address come back while another is queued.  One
\* websocket and one plain connection, which may be in front or behind.
SPECIFICATION MCSpec
CONSTANTS
  Heads = {h1, h2}
  Entries = {e1, e2, e3}
  MaxLen = 3
  ListHead = ListHead
  NoNode = NoNode
  Nodes = {n1, n2}
  Conns = {w1, p1}
  WebSockets = {w1}
  MaxCalls = 3
INVARIANTS ListsWellFormed ResultsCorrect QueueSound Conservation
PROPERTIES ImplementsChannel FedIsWritten
