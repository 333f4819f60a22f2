--------------------------- MODULE MCRsePsProxy ---------------------------
(***************************************************************************)
(* A small instance of RsePsProxy.  Five payload channels: a header and a  *)
(* storage request with one datum fit, a reply with the measurement's      *)
(* metadata and value does not.                                            *)
(***************************************************************************)
EXTENDS RsePsProxy

Request(protocol, tag, handle, type, ins, caps) ==
  [protocol |-> protocol, tag |-> tag, handle |-> handle, type |-> type,
   ins |-> ins, caps |-> caps,
   sent |-> IF protocol = "pointer" THEN HeaderUnits
            ELSE HeaderUnits + Total(ins)]

MCCalls == {
  \* storage, uid 7: set one datum or two, get from an offset, and the rest
  Request("embed", 1, "storage", "set", <<<<7>>, <<4>>, <<0>>>>, <<>>),
  Request("pointer", 2, "storage", "set", <<<<7>>, <<5, 6>>, <<1>>>>, <<>>),
  Request("embed", 3, "storage", "get", <<<<7>>, <<1>>>>, <<1>>),
  Request("pointer", 4, "storage", "get", <<<<7>>, <<0>>>>, <<2>>),
  Request("pointer", 5, "storage", "info", <<<<7>>>>, <<3>>),
  Request("embed", 6, "storage", "remove", <<<<7>>>>, <<>>),
  Request("embed", 7, "storage", "support", <<>>, <<1>>),
  \* boot measurements: a slot locked and extended again, read in full with
  \* room for the outputs and without
  Request("pointer", 8, "boot", "extend", <<<<0, 2, 3>>, <<9>>, <<2>>, <<8>>>>, <<>>),
  Request("embed", 9, "boot", "read", <<<<0>>>>, <<4, 1, 1>>),
  Request("pointer", 10, "boot", "read", <<<<0>>>>, <<4, 0, 1>>),
  \* firmware components, the last and one past it
  Request("embed", 11, "update", "query", <<<<4>>>>, <<2>>),
  Request("embed", 12, "update", "query", <<<<5>>>>, <<2>>),
  \* too long for the channels, cut short, with too many vectors, unknown
  Request("embed", 13, "storage", "set", <<<<7>>, <<4, 4>>, <<0>>>>, <<>>),
  [Request("embed", 14, "storage", "remove", <<<<7>>>>, <<>>) EXCEPT !.sent = 0],
  [Request("pointer", 15, "storage", "remove", <<<<7>>>>, <<>>) EXCEPT !.sent = 1],
  Request("pointer", 16, "storage", "remove", <<<<7>>>>, <<1, 1, 1, 1>>),
  Request("other", 17, "storage", "remove", <<<<7>>>>, <<>>),
  Request("embed", 18, "other", "set", <<>>, <<>>) }
=============================================================================
