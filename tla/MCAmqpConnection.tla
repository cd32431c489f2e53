--------------------------- MODULE MCAmqpConnection ---------------------------
(* Small instances of AmqpConnection.                                       *)
EXTENDS AmqpConnection

Content == {
    [type |-> "method", channel |-> 1, id |-> "deliver", size |-> 6],
    [type |-> "header", channel |-> 1, id |-> "content", size |-> 13],
    [type |-> "body", channel |-> 1, id |-> "content", size |-> 3],
    [type |-> "body", channel |-> 2, id |-> "content", size |-> 0],
    [type |-> "heartbeat", channel |-> 0, id |-> "none", size |-> 0],
    [type |-> "unknown", channel |-> 0, id |-> "none", size |-> 1]}
Early == {[type |-> "method", channel |-> 0, id |-> "blocked", size |-> 4],
          [type |-> "method", channel |-> 0, id |-> "close", size |-> 4]}

\* Properties do not fit into a page, the rest does.
Sizes == [method |-> 9, header |-> 40, sasl |-> 20, copy |-> 16, link |-> 8]

=============================================================================
