------------------------------ MODULE MCDialog ------------------------------
(* Instance of Dialog for model checking.                                  *)
EXTENDS Dialog

\* The client writes, opens substreams and closes; the server sends datagrams.
DialogCalls ==
    {<<"client", "openSubstream">>, <<"client", "writeMessage">>,
     <<"client", "writeReliable">>, <<"client", "delete">>,
     <<"server", "writeDatagram">>}
=============================================================================
