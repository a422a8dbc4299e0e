--------------------------- MODULE MCItemWorkflow ---------------------------
EXTENDS ItemWorkflow

CONSTANTS epic, story, task

Flat  == [x \in Cards |-> IF x = epic THEN NoCard ELSE epic]
Chain == [x \in Cards |-> IF x = epic THEN NoCard ELSE IF x = story THEN epic ELSE story]
Alone == [x \in Cards |-> IF x = story THEN epic ELSE NoCard]
Roots == [x \in Cards |-> NoCard]

At(i, j, k) == [x \in Cards |-> IF x = epic THEN i ELSE IF x = story THEN j ELSE k]

Start(parent, status, verify, n) ==
  [parent |-> parent, status |-> status, verifyAt |-> verify, calls |-> n]

\* A parent with two children, or one, and a chain of three, near the end of the flow;
\* and a parent that was closed, or moved back, while a card below it can still move.
MCScenarios ==
  { Start(Flat, At(3, 3, 3), "card", 2), Start(Alone, At(2, 2, Unborn), "card", 3),
    Start(Flat, At(3, 3, 4), "parent", 2), Start(Alone, At(3, 4, Unborn), "card", 3),
    Start(Alone, At(3, 3, Unborn), "parent", 3), Start(Alone, At(3, 4, 3), "card", 2),
    Start(Chain, At(3, 4, 3), "card", 2), Start(Chain, At(3, 3, 3), "parent", 2),
    Start(Alone, At(4, 3, Unborn), "parent", 3), Start(Chain, At(3, 4, 4), "card", 2) }

\* One card, mid-flow, for what a long sequence of calls does to it.
MCOneCard == { Start(Roots, At(i, Unborn, Unborn), "card", 4) : i \in {2, 3} }

\* A closed card, and two PUTs that cross.
MCClosed == { Start(Roots, At(4, Unborn, Unborn), "card", 2) }
=============================================================================
