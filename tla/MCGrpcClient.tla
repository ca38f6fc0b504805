---------------------------- MODULE MCGrpcClient ----------------------------
(***************************************************************************)
(* TLC instances of GrpcClient.                                            *)
(***************************************************************************)
EXTENDS GrpcClient

CONSTANT m1

With(field, value) == [field |-> field, value |-> value]
Add(key, value)    == [field |-> "header", key |-> key, value |-> value]

Shared ==
  [NoConfig EXCEPT !.map = m1, !.id = "A", !.timeout = 3, !.url = "there",
                   !.insecure = TRUE]

MCLower == [key \in Keys |-> ClientId]

\* The map has the id of another program in it, or nothing.
MCContents == {Empty, [Empty EXCEPT !["X-Client-Id"] = "E"]}

\* No options; a config and headers that may share their map; a header of
\* the same name as the client's id; a config that undoes the options before
\* it; the id spelled otherwise, and a timeout that is none.  URL and
\* credentials are given one without the other, and by a config with other
\* options after it.
MCOptionLists ==
  {<<>>,
   <<With("config", Shared)>>,
   <<With("map", m1), With("id", "B"), With("tls", TRUE)>>,
   <<Add(ClientId, "C"), With("timeout", 3), With("url", "there")>>,
   <<Add(ClientId, "D"), With("tls", TRUE), With("config", NoConfig),
     With("delays", [NoDelays EXCEPT !.BaseDelay = 9])>>,
   <<With("map", m1), Add("X-Client-Id", "D"), With("timeout", -1),
     With("insecure", TRUE), With("url", "there")>>}
=============================================================================
