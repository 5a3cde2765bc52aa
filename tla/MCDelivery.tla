----------------------------- MODULE MCDelivery -----------------------------
EXTENDS Delivery

\* Someone who is managed, and a manager who arms reminders for them alone.
MCPeople == {"boss", "worker"}
MCScope == [p \in MCPeople |-> {"worker"}]
MCIntervals == {1, 2}
MCExpiries == {3}
=============================================================================
