--------------------------- MODULE MCServerConfig ---------------------------
(***************************************************************************)
(* TLC instance of ServerConfig.                                           *)
(***************************************************************************)
EXTENDS ServerConfig, TLC

CONSTANT MaxLen

Services(list) == [field |-> "services", values |-> list]
In(prefix, name, upper) ==
  [field |-> "incoming", values |-> <<Header(prefix, name, upper)>>]
Out(name) == [field |-> "outgoing", values |-> <<Header("", name, TRUE)>>]

\* Names that are listed for one direction or the other, in either case, one
\* of HTTP's own among them, and one that passes anyway.
MCKeys ==
  {Header("", "tenant", TRUE), Header("", "tenant", FALSE),
   Header("", "authorization", FALSE), Header("", "x-client-id", TRUE),
   Header("grpc-metadata-", "user", TRUE),
   Header("grpc-metadata-", "authorization", TRUE)}

MCPermanent == {"authorization"}

\* One service at a time, or three, and headers of either direction.
MCOptionLists ==
  {<<>>,
   <<Services(<<"a">>), Services(<<"b">>), Services(<<"c">>),
     In("", "tenant", TRUE)>>,
   <<Services(<<"h">>), In("grpc-metadata-", "user", FALSE),
     Out("authorization")>>,
   <<Services(<<"d">>), Services(<<>>), Out("tenant")>>,
   <<Services(<<"e", "f", "g">>),
     [field |-> "logger", values |-> "own"],
     [field |-> "httpMarshalerOptions",
       values |-> [partialReq |-> TRUE, partialResp |-> FALSE]]>>}

\* Slashes at either end, in the middle, doubled and alone.
MCBasePaths ==
  {p \in UNION {[1 .. n -> {"/", "a"}] : n \in 0 .. MaxLen} :
     \A i \in 1 .. Len(p) - 1 : p[i] = "/" \/ p[i + 1] = "/"}

MCPaths == {<<"/">> \o p : p \in UNION {[1 .. n -> {"/", "a"}] : n \in 0 .. 4}}

MCAddresses ==
  {ZeroListen, [host |-> "", port |-> 9000], [host |-> "h", port |-> 0]}

ConfigSymmetry == Permutations(Configs)
=============================================================================
