------------------------ MODULE MCOperationMigration ------------------------
(***************************************************************************)
(* A package for TLC, with legacy files requests.go and results.go.        *)
(***************************************************************************)
EXTENDS OperationMigration

CONSTANTS create, get, list, listOpts, url, setup, requests, results

(* Create and Get share url; List calls Get and has its ListOpts; setup is *)
(* an init function, which Go lets any number of files have.               *)
CallsOps   == {create, get, list}
CallsDecls == CallsOps \cup {listOpts, url, setup}
CallsRefs  ==
  [d \in CallsDecls |->
     CASE d = create -> {url}
       [] d = get    -> {url}
       [] d = list   -> {get, listOpts}
       [] OTHER      -> {}]
CallsBegins ==
  [d \in CallsDecls |->
     CASE d \in CallsOps -> <<d>>
       [] d = listOpts   -> <<list>>
       [] OTHER          -> <<>>]
CallsOrder == <<create, get, list, requests, results>>
CallsLayout(inRequests, inResults) ==
  [f \in CallsOps \cup {requests, results} |->
     CASE f = requests -> inRequests
       [] f = results  -> inResults
       [] OTHER        -> Absent]
CallsTogether == {CallsLayout(CallsDecls, {})}
CallsApart ==
  CallsTogether \cup
    {CallsLayout(CallsDecls \ {list, listOpts}, inResults) :
       inResults \in {{list, listOpts}, {list, listOpts, setup}}}
=============================================================================
