--------------------------- MODULE SourceHandler ---------------------------
(***************************************************************************)
(* The handlers of api/http/pub/src/handler.go: Create, Read, Delete and   *)
(* List of publication sources, each a chain of calls to the registry of   *)
(* the sources' type and, for Read, to the limits and the usage service.   *)
(* Requests run concurrently, on any replica, and share nothing but the    *)
(* registries, which are external: what is modelled of them is how the     *)
(* handlers use them.  Any call may fail, executed or not, and a call that *)
(* the handler gave up may still be executed later.                        *)
(*                                                                         *)
(* Group ids are left out: all users are of one group.                     *)
(***************************************************************************)
EXTENDS Naturals

CONSTANTS
  Requests,      \* HTTP requests
  Queries,       \* what a request may ask for, see QueryType
  Users,         \* user ids
  NoUser,        \* the empty user id: a source that belongs to nobody
  Absent,        \* in place of the owner of a source that is not there
  Addrs,         \* addresses of sources
  Escape,        \* escapeNonAsciiChars: address -> address
  Keys,          \* the <<type, address>> considered
  Refused,       \* gRPC codes of a call that a service refused to execute
  Lost           \* gRPC codes of a call that may be executed all the same

Types == {"apub", "feed", "site", "tgch", "tgbc"}

(* valid: the body, the header with the address or the parameters of the   *)
(* list are there and correct.                                             *)
QueryType ==
  [op : {"create", "read", "delete", "list"}, type : Types \cup {"other"},
   addr : Addrs, user : Users, valid : BOOLEAN]

(* Read and Delete escape the address of the header; the address in the    *)
(* body of Create and the cursor of List are used as they are.             *)
KeyOf(q) == <<q.type, IF q.op \in {"read", "delete"} THEN Escape[q.addr] ELSE q.addr>>

(* The handler has a case for the type.                                    *)
Supported(q) ==
  q.type \in CASE q.op = "create" -> {"apub", "feed", "tgch"}
               [] q.op \in {"read", "list"} -> Types
               [] q.op = "delete" -> Types \ {"tgbc"}

ASSUME KeysAssumption == Keys \subseteq Types \X Addrs
ASSUME QueriesAssumption ==
  /\ Queries \subseteq QueryType
  /\ \A q \in Queries : Supported(q) => KeyOf(q) \in Keys
ASSUME UsersAssumption == NoUser \in Users /\ Absent \notin Users
ASSUME EscapeAssumption ==
  Escape \in [Addrs -> Addrs] /\ \A a \in Addrs : Escape[Escape[a]] = Escape[a]
ASSUME CodesAssumption ==
  /\ Refused \subseteq {"NotFound", "AlreadyExists", "PermissionDenied", "InvalidArgument"}
  /\ Lost \subseteq {"DeadlineExceeded", "Unavailable", "Internal", "Unknown"}

VARIABLES
  pc,            \* the call a handler waits for, or idle, done
  req,           \* the query it serves
  result,        \* result.UserId of Read
  http,          \* the status answered, 0 before
  shown,         \* history: request -> the user id a Read answered with
  net,           \* calls a service has not handled
  reply,         \* the reply waiting for the handler
  registry,      \* <<type, address>> -> owner, or Absent
  added,         \* history: requests that registered a source
  removed,       \* history: requests that removed a source
  seen           \* history: request -> owners of its source since it began

handler == <<pc, req, result, http, shown>>
registries == <<registry, added, removed, seen>>
vars == <<pc, req, result, http, shown, net, reply, registry, added, removed, seen>>

Changing == {"create", "delete"}
Calls == Changing \cup {"read", "limit", "usage", "list"}
NoReply == [has |-> FALSE, code |-> "OK", owner |-> NoUser]
Key(r) == KeyOf(req[r])

Init ==
  /\ pc = [r \in Requests |-> "idle"]
  /\ req \in [Requests -> Queries]
  /\ result = [r \in Requests |-> NoUser]
  /\ http = [r \in Requests |-> 0]
  /\ shown = [r \in Requests |-> NoUser]
  /\ net = {}
  /\ reply = [r \in Requests |-> NoReply]
  /\ registry \in [Keys -> Users \cup {Absent}]
  /\ \A k \in Keys : k[1] = "tgbc" => registry[k] \in {Absent, NoUser}
  /\ added = {}
  /\ removed = {}
  /\ seen = [r \in Requests |-> {}]

(***************************************************************************)
(* The handlers                                                            *)
(***************************************************************************)
Call(r, left, call) ==
  /\ pc' = [pc EXCEPT ![r] = call]
  /\ net' = left \cup {[r |-> r, call |-> call]}
  /\ UNCHANGED <<http, shown>>

Respond(r, left, status) ==
  /\ pc' = [pc EXCEPT ![r] = "done"]
  /\ http' = [http EXCEPT ![r] = status]
  /\ net' = left

Refuse(r, left, status) == Respond(r, left, status) /\ UNCHANGED shown

(* gin sends the status of the first answer of a handler: what it answers  *)
(* after that only adds to the body.                                       *)
Sent(first, second) == first

(* The status of a request that needs no call: the body of a Create that   *)
(* cannot be read is 500, everything else 400.  Create lets "site" through *)
(* validate, has no case for it and goes on as if a call had succeeded.    *)
Unserved(q) ==
  CASE ~q.valid /\ q.op = "create" -> {400, 500}
    [] q.valid /\ q.op = "create" /\ q.type = "site" -> {Sent(400, 201)}
    [] OTHER -> {400}

(* Before the first call; Delete of a Telegram channel reads it first.     *)
Begin(r) ==
  /\ pc[r] = "idle"
  /\ LET q == req[r]
         serves == q.valid /\ Supported(q)
         first == IF q.op = "delete" /\ q.type = "tgch" THEN "read" ELSE q.op
     IN  \/ serves /\ Call(r, net, first) /\ seen' = [seen EXCEPT ![r] = {registry[Key(r)]}]
         \/ /\ ~serves /\ UNCHANGED seen
            /\ \E status \in Unserved(q) : Refuse(r, net, status)
  /\ UNCHANGED <<req, result, reply, registry, added, removed>>

(* How the call that r waits for may end: with the reply, with the error   *)
(* of a service that did not execute it, or with the loss of a call that   *)
(* was or will be executed, which only matters if it changes a registry.   *)
Outcomes(r) ==
  LET own == {m \in net : m.r = r /\ m.call = pc[r]}
      harmless == {m \in own : m.call \notin Changing}
  IN  {[code |-> reply[r].code, owner |-> reply[r].owner, left |-> net] :
         x \in {reply[r].has} \cap {TRUE}}
      \cup {[code |-> c, owner |-> NoUser, left |-> net \ {m}] : c \in Refused, m \in own}
      \cup {[code |-> c, owner |-> NoUser, left |-> net \ harmless] : c \in Lost}

Ends(r, call) ==
  /\ pc[r] = call
  /\ reply' = [reply EXCEPT ![r] = NoReply]
  /\ UNCHANGED <<req, registries>>

(* A defect: an error of the registry is not told from a conflict.         *)
CreateStatusConflict(code) == IF code = "OK" THEN 201 ELSE 409

CreateStatus(code) ==
  CASE code = "OK" -> 201
    [] code = "InvalidArgument" -> 400
    [] code = "AlreadyExists" -> 409
    [] code = "PermissionDenied" -> 403
    [] OTHER -> 500

(* A defect: Create calls again when it does not know what became of it.   *)
CreateEndsRetrying(r) ==
  /\ Ends(r, "create")
  /\ \E e \in Outcomes(r) :
       \/ e.code \in Lost /\ Call(r, e.left, "create")
       \/ e.code \notin Lost /\ Refuse(r, e.left, CreateStatus(e.code))
  /\ UNCHANGED result

CreateEnds(r) ==
  /\ Ends(r, "create")
  /\ \E e \in Outcomes(r) : Refuse(r, e.left, CreateStatus(e.code))
  /\ UNCHANGED result

(* A defect: a channel that is not in the list is used as one that is.     *)
ReadEndsNil(r) ==
  /\ Ends(r, "read") /\ req[r].op = "read"
  /\ \E e \in Outcomes(r) :
       /\ Call(r, e.left, "limit")
       /\ result' = IF e.code = "OK" THEN [result EXCEPT ![r] = e.owner] ELSE result

(* Read: an error of the registry is overwritten by the one of the limits, *)
(* so the payload stays empty.  A bot channel that is not in the list is a *)
(* nil channel without an error, and the handler panics.                   *)
ReadEnds(r) ==
  /\ Ends(r, "read") /\ req[r].op = "read"
  /\ \E e \in Outcomes(r) :
       \/ e.code = "OK" /\ e.owner = Absent /\ Refuse(r, e.left, 500) /\ UNCHANGED result
       \/ e.code = "OK" /\ e.owner # Absent /\ Call(r, e.left, "limit")
          /\ result' = [result EXCEPT ![r] = e.owner]
       \/ e.code # "OK" /\ Call(r, e.left, "limit") /\ UNCHANGED result

(* The errors of the limits and permits clients carry no gRPC code.        *)
LimitEnds(r) ==
  /\ Ends(r, "limit")
  /\ \E e \in Outcomes(r) :
       \/ e.code = "OK" /\ Call(r, e.left, "usage")
       \/ e.code # "OK" /\ Refuse(r, e.left, 500)
  /\ UNCHANGED result

(* A defect: the owner is not removed from the answer.                     *)
UsageEndsExposing(r) ==
  /\ Ends(r, "usage")
  /\ \E e \in Outcomes(r) :
       \/ e.code = "OK" /\ Respond(r, e.left, 200)
          /\ shown' = [shown EXCEPT ![r] = result[r]]
       \/ e.code # "OK" /\ Refuse(r, e.left, 500)
  /\ UNCHANGED result

(* The owner is left in the answer for himself only.                       *)
UsageEnds(r) ==
  /\ Ends(r, "usage")
  /\ \E e \in Outcomes(r) :
       \/ e.code = "OK" /\ Respond(r, e.left, 200)
          /\ shown' = [shown EXCEPT ![r] =
               IF result[r] = req[r].user THEN result[r] ELSE NoUser]
       \/ e.code # "OK" /\ Refuse(r, e.left, 500)
  /\ UNCHANGED result

DeleteStatus(code) ==
  CASE code = "OK" -> 200 [] code = "NotFound" -> 404 [] OTHER -> 500

(* A defect: whoever asks may delete a channel that is there.              *)
CheckEndsUnchecked(r) ==
  /\ Ends(r, "read") /\ req[r].op = "delete"
  /\ \E e \in Outcomes(r) :
       \/ e.code # "OK" /\ Refuse(r, e.left, DeleteStatus(e.code))
       \/ e.code = "OK" /\ Call(r, e.left, "delete")
  /\ UNCHANGED result

(* Delete of a Telegram channel goes on if the user owns what was read.    *)
CheckEnds(r) ==
  /\ Ends(r, "read") /\ req[r].op = "delete"
  /\ \E e \in Outcomes(r) :
       \/ e.code # "OK" /\ Refuse(r, e.left, DeleteStatus(e.code))
       \/ e.code = "OK" /\ e.owner = req[r].user /\ Call(r, e.left, "delete")
       \/ e.code = "OK" /\ e.owner # req[r].user /\ Refuse(r, e.left, 403)
  /\ UNCHANGED result

DeleteEnds(r) ==
  /\ Ends(r, "delete")
  /\ \E e \in Outcomes(r) : Refuse(r, e.left, DeleteStatus(e.code))
  /\ UNCHANGED result

(* Every error of a list is answered alike.                                *)
ListEnds(r) ==
  /\ Ends(r, "list")
  /\ \E e \in Outcomes(r) : Refuse(r, e.left, IF e.code = "OK" THEN 200 ELSE 500)
  /\ UNCHANGED result

(***************************************************************************)
(* The services                                                            *)
(***************************************************************************)

Deliver(m, code, owner) ==
  /\ net' = net \ {m}
  /\ reply' = IF pc[m.r] = m.call
              THEN [reply EXCEPT ![m.r] = [has |-> TRUE, code |-> code, owner |-> owner]]
              ELSE reply
  /\ UNCHANGED handler

(* The owner of k becomes o.                                               *)
SetOwner(k, o) ==
  /\ registry' = [registry EXCEPT ![k] = o]
  /\ seen' = [r \in Requests |->
                IF seen[r] # {} /\ Key(r) = k THEN seen[r] \cup {o} ELSE seen[r]]

(* Create keeps the source that is there.                                  *)
Register(m) ==
  /\ m.call = "create"
  /\ \/ /\ registry[Key(m.r)] = Absent
        /\ SetOwner(Key(m.r), req[m.r].user)
        /\ added' = added \cup {m.r}
        /\ Deliver(m, "OK", NoUser)
     \/ /\ registry[Key(m.r)] # Absent
        /\ Deliver(m, "AlreadyExists", NoUser)
        /\ UNCHANGED <<registry, added, seen>>
  /\ UNCHANGED removed

(* Delete is told the user by all registries but the one of Telegram       *)
(* channels, which removes whatever has the link.                          *)
Unregister(m) ==
  /\ m.call = "delete"
  /\ LET k == Key(m.r)
         removes == /\ registry[k] # Absent
                    /\ req[m.r].type = "tgch" \/ registry[k] = req[m.r].user
     IN  \/ removes /\ SetOwner(k, Absent) /\ removed' = removed \cup {m.r}
            /\ Deliver(m, "OK", NoUser)
         \/ ~removes /\ Deliver(m, "NotFound", NoUser)
            /\ UNCHANGED <<registry, removed, seen>>
  /\ UNCHANGED added

LookUp(m) ==
  /\ m.call = "read"
  /\ LET o == registry[Key(m.r)]
     IN  Deliver(m, IF o = Absent /\ req[m.r].type # "tgbc" THEN "NotFound" ELSE "OK", o)
  /\ UNCHANGED registries

(* The limits and the usage service answer counts, a registry its page.    *)
GetOrList(m) ==
  /\ m.call \in {"limit", "usage", "list"}
  /\ Deliver(m, "OK", NoUser)
  /\ UNCHANGED registries

Handle(m) == Register(m) \/ Unregister(m) \/ LookUp(m) \/ GetOrList(m)

Handler(r) ==
  \/ Begin(r)
  \/ CreateEnds(r)
  \/ ReadEnds(r)
  \/ LimitEnds(r)
  \/ UsageEnds(r)
  \/ CheckEnds(r)
  \/ DeleteEnds(r)
  \/ ListEnds(r)

Terminating == (\A r \in Requests : pc[r] = "done") /\ UNCHANGED vars

Next ==
  \/ \E r \in Requests : Handler(r)
  \/ \E m \in net : Handle(m)
  \/ Terminating

Spec == Init /\ [][Next]_vars

(***************************************************************************)
(* Properties                                                              *)
(***************************************************************************)

(* Every variable has its type.                                            *)
TypeOK ==
  /\ pc \in [Requests -> Calls \cup {"idle", "done"}]
  /\ req \in [Requests -> Queries]
  /\ result \in [Requests -> Users]
  /\ http \in [Requests -> {0, 200, 201, 400, 403, 404, 409, 500}]
  /\ shown \in [Requests -> Users]
  /\ net \subseteq [r : Requests, call : Calls]
  /\ reply \in [Requests -> [has : BOOLEAN, code : {"OK", "NotFound", "AlreadyExists"},
                             owner : Users \cup {Absent}]]
  /\ registry \in [Keys -> Users \cup {Absent}]
  /\ added \subseteq Requests
  /\ removed \subseteq Requests
  /\ seen \in [Requests -> SUBSET (Users \cup {Absent})]

(* "do not expose someone else's source owner user to public"              *)
(* (handler.go:258): Read names an owner only to himself, and only if he   *)
(* owned the source while the request ran, whatever ran meanwhile.         *)
OwnerShownToHimself ==
  \A r \in Requests :
    shown[r] # NoUser => shown[r] = req[r].user /\ shown[r] \in seen[r]

Refusals == {400, 403, 404, 409}

(* What the status tells the client about the registry, although a call    *)
(* may fail and be executed all the same: 201 and 200 that the request did *)
(* what it was sent for, a refusal other than 500 that it did nothing and  *)
(* never will (the switches at the end of Create and Delete).              *)
StatusTruthful ==
  \A r \in Requests :
    /\ req[r].op = "create" /\ http[r] = 201 => r \in added
    /\ req[r].op = "delete" /\ http[r] = 200 => r \in removed
    /\ http[r] \in Refusals => r \notin added \cup removed

(* A user removes nothing but what he owned at some time since his request *)
(* began.  Not: what he owns when it is removed, for Telegram channels are *)
(* removed by their link after a check (handler.go:297-300).               *)
RemovedByOwner ==
  [][\A r \in removed' \ removed : req[r].user \in seen[r]]_vars

(* What a request asks for and what it was told, in the terms of           *)
(* SourceOwnership.                                                        *)
Asked == [q \in Queries |->
  IF q.op \notin Changing \/ ~q.valid \/ ~Supported(q) THEN [op |-> "none"]
  ELSE [op |-> IF q.op = "create" THEN "add" ELSE "remove",
        source |-> KeyOf(q), user |-> q.user]]

ToldOf(r) ==
  CASE http[r] = 0 -> "none"
    [] http[r] \in Refusals -> "refused"
    [] \/ req[r].op = "create" /\ http[r] = 201
       \/ req[r].op = "delete" /\ http[r] = 200 -> "changed"
    [] OTHER -> "unknown"

Ownership == INSTANCE SourceOwnership WITH
  Sources <- Keys,
  asked <- [r \in Requests |-> Asked[req[r]]],
  owner <- registry,
  since <- [r \in Requests |-> IF req[r].op \in Changing THEN seen[r] ELSE {}],
  changed <- added \cup removed,
  told <- [r \in Requests |-> ToldOf(r)]

(* The handlers and the registries together change a source as if each     *)
(* request did it at once, at some time after it began, at most once, never*)
(* after a refusal, and only where it is entitled to, although calls fail, *)
(* are answered and executed in any order (Create and Delete of            *)
(* handler.go).                                                            *)
ImplementsOwnership == Ownership!Spec
=============================================================================
