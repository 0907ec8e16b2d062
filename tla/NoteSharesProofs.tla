-------------------------- MODULE NoteSharesProofs --------------------------
(***************************************************************************)
(* Notes and their shares, for any users, notes and shares.  Granted says  *)
(* of each request that what it has read so far was conferred on its       *)
(* caller while it ran; Solo follows a write nothing overlaps through its  *)
(* calls; Racing says that two upserts of one share under way at once have *)
(* been recorded as a race.  A caller is its scope: the user id, and the   *)
(* address the request carries (scope_from_headers).                       *)
(***************************************************************************)
EXTENDS NoteShares, FiniteSetTheorems, WellFoundedInduction, TLAPS

Rows == [note : Notes, target : Targets, permission : Permissions, at : 1..clock]

ListPhases == {"own_by_user", "own_by_email", "shared_by_user", "shared_by_email", "by_ids"}
AccessPhases == {"note", "role_by_user", "role_by_email"}
OwnerPhases == {"patch", "insert", "delete", "read_shares"}
Middle == ListPhases \cup AccessPhases \cup OwnerPhases

\* Where a request of a kind may stand.
Stage(r) ==
    LET k == req[r]
    IN  /\ pc[r] \in {"idle", "done"} \cup Middle
        /\ Active(r) => k \in Kinds /\ ~BadPayload(k)
        /\ pc[r] \in ListPhases => k.kind = "list"
        /\ pc[r] \in AccessPhases => k.kind # "list"
        /\ pc[r] \in {"patch", "insert"} => k.kind = "upsert"
        /\ pc[r] = "delete" => k.kind = "remove"
        /\ pc[r] = "read_shares" => k.kind = "shares"
        /\ answer[r] # "none" => pc[r] = "done"
        /\ pc[r] = "idle" => owned[r] = {} /\ found[r] = {}
        /\ owned[r] \subseteq [note : Notes, row : NoteRows]
        /\ found[r] \subseteq Rows
        /\ found[r] # {} => k.actor \in Users

FunctionShapes ==
    /\ pc = [r \in Requests |-> pc[r]]
    /\ req = [r \in Requests |-> req[r]]
    /\ owned = [r \in Requests |-> owned[r]]
    /\ found = [r \in Requests |-> found[r]]
    /\ answer = [r \in Requests |-> answer[r]]
    /\ served = [r \in Requests |-> served[r]]

Shape ==
    /\ clock \in Nat
    /\ notes \in [Notes -> NoteRows \cup {NoNote}]
    /\ shares \subseteq Rows
    /\ FunctionShapes
    /\ unique => \A s, o \in shares : s.note = o.note /\ s.target = o.target => s = o

Types == Shape /\ \A r \in Requests : Stage(r)

\* What a request has read, and what it will answer, was granted to its caller.
Read(r) ==
    /\ Active(r) =>
        /\ \A x \in owned[r] : Owns(req[r].actor, req[r].email, x.row) => <<x.note, "owner">> \in conferred[r]
        /\ \A s \in found[r] : <<s.note, s.permission>> \in conferred[r]
    /\ pc[r] = "role_by_email" => \A s \in found[r] : s.note = req[r].note
    /\ pc[r] \in OwnerPhases => <<req[r].note, "owner">> \in conferred[r]
    /\ served[r] \subseteq conferred[r]

Granted ==
    \A r \in Requests :
        /\ Active(r) => Grants(req[r].actor, req[r].email, notes, shares) \subseteq conferred[r]
        /\ Read(r)

InForce(r) ==
    LET S == SharesWith(req[r].note, req[r].target)
    IN  /\ pc[r] = "insert" => \A s \in S : s.permission = req[r].permission
        /\ answer[r] = "ok" /\ req[r].kind = "upsert" =>
                {s.permission : s \in S} = {req[r].permission}
        /\ answer[r] = "ok" /\ req[r].kind = "remove" => S = {}

Solo ==
    \A r \in Requests : alone[r] /\ Writes(req[r]) =>
        /\ \A o \in Requests \ {r} : Active(o) => ~SameShare(req[r], req[o])
        /\ InForce(r)

\* Why there may be two shares with one target.
Caused == raced \cup unread

Racing ==
    /\ \A r, o \in Requests :
        r # o /\ Active(r) /\ Active(o) /\ SameShare(req[r], req[o])
            /\ req[r].kind = "upsert" /\ req[o].kind = "upsert" =>
                <<req[r].note, req[r].target>> \in raced
    /\ \A r \in Requests :
        pc[r] = "insert" /\ SharesWith(req[r].note, req[r].target) # {} =>
            <<req[r].note, req[r].target>> \in Caused
    /\ \A s, o \in shares : s # o /\ s.note = o.note /\ s.target = o.target =>
            <<s.note, s.target>> \in Caused

-----------------------------------------------------------------------------
(* The newest of some shares. *)

\* A finite set of naturals has a greatest element: a smallest subset without
\* one would have one.
LEMMA FiniteMax ==
  ASSUME NEW S, S \subseteq Nat, IsFiniteSet(S), S # {}
  PROVE  \E m \in S : \A y \in S : y <= m
<1> DEFINE T == {U \in SUBSET S : U # {} /\ ~ \E m \in U : \A y \in U : y <= m}
           R == StrictSubsetOrdering(S)
<1> SUFFICES ASSUME T # {} PROVE FALSE
  OBVIOUS
<1>1. T \subseteq FiniteSubsetsOf(S) /\ IsWellFoundedOn(R, FiniteSubsetsOf(S))
  BY FS_FiniteSubsetsOfFinite, FS_StrictSubsetOrderingWellFounded
<1>2. PICK U \in T : \A V \in T : ~ (<<V, U>> \in R)
  <2> HIDE DEF T, R
  <2> QED BY <1>1, WFMin
<1>3. PICK x \in U : TRUE
  OBVIOUS
<1> DEFINE V == U \ {x}
<1>4. <<V, U>> \in R
  BY <1>3 DEF StrictSubsetOrdering
<1>5. V \notin T
  BY <1>2, <1>4
<1>6. CASE V = {}
  <2>1. U = {x} /\ x \in Nat
    BY <1>3, <1>6
  <2> QED BY <2>1
<1>7. CASE \E m \in V : \A y \in V : y <= m
  <2>1. PICK m \in V : \A y \in V : y <= m
    BY <1>7
  <2>2. m \in Nat /\ x \in Nat /\ V \subseteq Nat
    BY <1>3
  <2>3. CASE x <= m
    BY <2>1, <2>3
  <2>4. CASE ~(x <= m)
    <3>1. \A y \in U : y <= x
      BY <2>1, <2>2, <2>4
    <3> QED BY <1>3, <3>1
  <2> QED BY <2>3, <2>4
<1> QED BY <1>5, <1>6, <1>7

LEMMA NewestExists ==
  ASSUME NEW S, S # {}, \A s \in S : s.at \in Nat, IsFiniteSet({s.at : s \in S})
  PROVE  NewestOf(S) \in S /\ NewestOf(S) \in Newest(S)
<1>1. PICK m \in {s.at : s \in S} : \A y \in {s.at : s \in S} : y <= m
  <2>1. {s.at : s \in S} \subseteq Nat /\ {s.at : s \in S} # {}
    OBVIOUS
  <2> QED BY <2>1, FiniteMax
<1>2. Newest(S) # {}
  BY <1>1 DEF Newest
<1> QED BY <1>2 DEF Newest, NewestOf

\* The shares of a table, and what was read of it, are no newer than the clock.
LEMMA NewestOfRows ==
  ASSUME clock \in Nat, NEW S, S \subseteq Rows, S # {}
  PROVE  NewestOf(S) \in S /\ NewestOf(S) \in Newest(S)
<1>1. {s.at : s \in S} \in SUBSET (0..clock) /\ \A s \in S : s.at \in Nat
  BY DEF Rows
<1>2. IsFiniteSet(0..clock)
  BY FS_Interval
<1>3. IsFiniteSet({s.at : s \in S})
  BY <1>1, <1>2, FS_Subset
<1> QED BY <1>1, <1>3, NewestExists

LEMMA InitialClock ==
  ASSUME Init
  PROVE  clock \in Nat /\ shares \subseteq Rows /\ IsFiniteSet(shares)
<1>1. /\ IsFiniteSet(shares)
      /\ shares \subseteq [note : Notes, target : Targets, permission : Permissions, at : Nat \ {0}]
  BY SharesAssumption DEF Init
<1>2. CASE shares = {}
  BY <1>1, <1>2 DEF Init
<1>3. CASE shares # {}
  <2> DEFINE A == {s.at : s \in shares}
             f == [s \in shares |-> s.at]
  <2>1. f \in Surjection(shares, A)
    BY DEF Surjection
  <2>2. IsFiniteSet(A)
    <3> HIDE DEF A, f
    <3> QED BY <1>1, <2>1, FS_Surjection
  <2>3. NewestOf(shares) \in shares /\ NewestOf(shares) \in Newest(shares)
    BY <1>1, <1>3, <2>2, NewestExists
  <2>4. clock = NewestOf(shares).at
    BY <1>3 DEF Init
  <2>5. clock \in Nat \ {0} /\ \A s \in shares : s.at <= clock
    BY <1>1, <2>3, <2>4 DEF Newest
  <2>6. \A s \in shares : s.at \in 1..clock
    BY <1>1, <2>5
  <2> QED BY <1>1, <2>5, <2>6 DEF Rows
<1> QED BY <1>2, <1>3

\* The newest of two sets is the newest of their newest.
LEMMA NewestOfUnion ==
  ASSUME clock \in Nat, NEW A, A \subseteq Rows, NEW B, B \subseteq Rows
  PROVE  Newest(A \cup B) = Newest(Newest(A) \cup Newest(B))
<1>1. \A s \in A \cup B : s.at \in Nat
  BY DEF Rows
<1>2. ASSUME NEW C, C \subseteq Rows, NEW s \in C PROVE \E n \in Newest(C) : s.at <= n.at
  BY <1>2, NewestOfRows DEF Newest
<1>3. Newest(A) \subseteq A /\ Newest(B) \subseteq B
  BY DEF Newest
<1>4. ASSUME NEW s \in Newest(A \cup B) PROVE s \in Newest(Newest(A) \cup Newest(B))
  BY <1>3, <1>4 DEF Newest
<1>5. ASSUME NEW s \in Newest(Newest(A) \cup Newest(B)) PROVE s \in Newest(A \cup B)
  <2>1. s \in A \cup B /\ \A n \in Newest(A) \cup Newest(B) : n.at <= s.at
    BY <1>3, <1>5 DEF Newest
  <2>2. ASSUME NEW o \in A \cup B PROVE o.at <= s.at
    <3>1. PICK n \in Newest(A) \cup Newest(B) : o.at <= n.at
      BY <1>2
    <3> QED BY <1>1, <1>3, <2>1, <3>1
  <2> QED BY <2>1, <2>2 DEF Newest
<1> QED BY <1>4, <1>5

-----------------------------------------------------------------------------
(* What a step of one request leaves of the others. *)

Inv == Types /\ Granted /\ Solo /\ Racing

Kept(q) ==
    /\ pc'[q] = pc[q] /\ answer'[q] = answer[q] /\ served'[q] = served[q]
    /\ owned'[q] = owned[q] /\ found'[q] = found[q] /\ req'[q] = req[q]

\* A step of r: nothing of another request changes.
StepOf(r) ==
    /\ pc[r] # "done" /\ pc'[r] # "idle"
    /\ \A q \in Requests \ {r} : Kept(q)
    /\ FunctionShapes' /\ Stage(r)'

\* Outside of Submit and the writes: the data plane and the requests stay.
Passive(r) ==
    /\ StepOf(r) /\ Active(r) /\ UNCHANGED <<store, req, alone, raced, unread>>
    /\ pc'[r] # "insert"
    /\ answer'[r] = "ok" => ~Writes(req[r])

LEMMA KindsTyped ==
  ASSUME NEW k \in Kinds
  PROVE  /\ k.actor \in Users /\ k.kind \in {"list", "get", "shares", "upsert", "remove"}
         /\ k.kind # "list" => k.note \in Notes
         /\ Writes(k) => k.target \in Targets \cup {NoTarget}
  BY DEF Kinds, Arriving, Writes

LEMMA InitInv == Init => Inv
<1> SUFFICES ASSUME Init PROVE Inv
  OBVIOUS
<1>1. clock \in Nat /\ shares \subseteq Rows /\ IsFiniteSet(shares)
  BY InitialClock
<1>2. \A s, o \in shares : s # o /\ s.note = o.note /\ s.target = o.target =>
            <<s.note, s.target>> \in Caused
  <2> SUFFICES ASSUME NEW s \in shares, NEW o \in shares, s # o,
                      s.note = o.note, s.target = o.target
               PROVE  <<s.note, s.target>> \in Caused
    OBVIOUS
  <2> DEFINE S == SharesWith(s.note, s.target)
  <2>1. S \in SUBSET shares /\ s \in S /\ o \in S
    BY DEF SharesWith
  <2>2. IsFiniteSet(S)
    BY <1>1, <2>1, FS_Subset
  <2>3. S # {} /\ ~ \E x : S = {x}
    BY <2>1
  <2>4. Cardinality(S) \in Nat /\ Cardinality(S) # 0 /\ Cardinality(S) # 1
    <3> HIDE DEF S
    <3> QED BY <2>2, <2>3, FS_CardinalityType, FS_EmptySet, FS_Singleton
  <2>5. Cardinality(S) > 1
    BY <2>4
  <2>6. <<s.note, s.target>> \in Notes \X Targets
    BY <1>1 DEF Rows
  <2> QED BY <2>5, <2>6 DEF Init, Caused
<1>3. unique => Caused = {}
  BY DEF Init, Caused
<1>4. Shape
  BY <1>1, <1>2, <1>3, SharesAssumption DEF Init, Shape, FunctionShapes
<1>5. \A r \in Requests : Stage(r)
  BY DEF Init, Stage, Active, ListPhases, AccessPhases
<1>6. Granted
  BY DEF Init, Granted, Read, Active, OwnerPhases
<1>7. Solo /\ Racing
  BY <1>2 DEF Init, Solo, Racing, Active
<1> QED BY <1>4, <1>5, <1>6, <1>7 DEF Inv, Types

LEMMA RecordGrows ==
  ASSUME Record, NEW r \in Requests
  PROVE  /\ conferred[r] \subseteq conferred'[r]
         /\ pc'[r] # "idle" /\ pc[r] # "done" =>
                Grants(req'[r].actor, req'[r].email, notes', shares') \subseteq conferred'[r]
  BY DEF Record

LEMMA OthersGranted ==
  ASSUME Granted, Record, NEW q \in Requests, Kept(q)
  PROVE  /\ Active(q)' => Grants(req'[q].actor, req'[q].email, notes', shares') \subseteq conferred'[q]
         /\ Read(q)'
<1>1. conferred[q] \subseteq conferred'[q]
  BY RecordGrows
<1>2. Read(q)
  BY DEF Granted
<1>3. Read(q)'
  BY <1>1, <1>2 DEF Read, Kept, Active
<1> QED BY <1>3, RecordGrows DEF Active, Kept

LEMMA StepGranted ==
  ASSUME Granted, Record, NEW r \in Requests, StepOf(r), Read(r)'
  PROVE  Granted'
<1> SUFFICES ASSUME NEW q \in Requests
             PROVE  /\ Active(q)' => Grants(req'[q].actor, req'[q].email, notes', shares') \subseteq conferred'[q]
                    /\ Read(q)'
  BY DEF Granted
<1>1. CASE q = r
  BY <1>1, RecordGrows DEF StepOf, Active
<1>2. CASE q # r
  BY <1>2, OthersGranted DEF StepOf
<1> QED BY <1>1, <1>2

LEMMA StepStages ==
  ASSUME Types, NEW r \in Requests, StepOf(r), clock' \in Nat, clock <= clock'
  PROVE  \A q \in Requests : Stage(q)'
<1> SUFFICES ASSUME NEW q \in Requests, q # r PROVE Stage(q)'
  BY DEF StepOf
<1>1. Kept(q) /\ Stage(q)
  BY DEF StepOf, Types
<1>2. Rows \subseteq Rows'
  BY DEF Rows, Types, Shape
<1> QED BY <1>1, <1>2 DEF Stage, Kept, Active

LEMMA PassiveStep ==
  ASSUME Inv, Record, NEW r \in Requests, Passive(r), Read(r)'
  PROVE  Inv'
<1>s. UNCHANGED <<notes, shares, clock, unique, req, alone, raced, unread>>
  BY DEF Passive, store
<1>1. Types'
  <2>1. \A q \in Requests : Stage(q)'
    BY <1>s, StepStages DEF Inv, Types, Shape, Passive
  <2>2. Shape'
    BY <1>s DEF Inv, Types, Shape, Rows, Passive, StepOf, FunctionShapes
  <2> QED BY <2>1, <2>2 DEF Types
<1>2. Granted'
  BY StepGranted DEF Inv, Passive
<1>3. \A q \in Requests : Active(q)' => Active(q)
  BY DEF Passive, StepOf, Kept, Active
<1>4. \A q \in Requests : /\ pc'[q] = "insert" => pc[q] = "insert"
                          /\ answer'[q] = "ok" /\ Writes(req[q]) => answer[q] = "ok"
  BY DEF Passive, StepOf, Kept
<1>5. Solo'
  BY <1>s, <1>3, <1>4, SMTT(30) DEF Inv, Solo, InForce, SharesWith, Writes, SameShare
<1>6. Racing'
  BY <1>s, <1>3, <1>4 DEF Inv, Racing, Caused, SharesWith, SameShare, Writes
<1> QED BY <1>1, <1>2, <1>5, <1>6 DEF Inv

-----------------------------------------------------------------------------
(* The queries.  Each lemma gives the step its frame and what was read. *)

\* A request that is answered without a role keeps what it has read.
LEMMA ReplyPassive ==
  ASSUME Inv, Record, NEW r \in Requests, Active(r), UNCHANGED <<store, local, req, alone, raced, unread>>,
         NEW a, a # "none", Reply(r, a), a = "ok" => ~Writes(req[r])
  PROVE  Inv'
<1>1. /\ pc'[r] = "done" /\ answer'[r] = a /\ served'[r] = {}
      /\ \A q \in Requests \ {r} : Kept(q)
      /\ FunctionShapes'
  BY DEF Reply, Serve, local, Inv, Types, Shape, Kept, FunctionShapes
<1>2. Stage(r)'
  BY <1>1 DEF Inv, Types, Stage, Active, store, local, Rows, ListPhases, AccessPhases
<1>3. Passive(r)
  BY <1>1, <1>2 DEF Passive, StepOf, Active
<1>4. Read(r)'
  BY <1>1 DEF Read, Active, OwnerPhases
<1> QED BY <1>3, <1>4, PassiveStep

LEMMA QueryFailsStep ==
  ASSUME Inv, Record, NEW r \in Requests, QueryFails(r) \/ Disconnect(r) \/ ReadShares(r)
  PROVE  Inv'
<1>1. CASE QueryFails(r)
  BY <1>1, ReplyPassive DEF QueryFails, Active
<1>2. CASE Disconnect(r)
  BY <1>2, ReplyPassive DEF Disconnect
<1>3. CASE ReadShares(r)
  <2>1. req[r].kind = "shares"
    BY <1>3 DEF ReadShares, Inv, Types, Stage
  <2> QED BY <1>3, <2>1, ReplyPassive DEF ReadShares, Active, Writes
<1> QED BY <1>1, <1>2, <1>3

\* The rows of notes read now are the caller's if Grants says so.
LEMMA RowsGranted ==
  ASSUME Inv, NEW r \in Requests, Active(r), NEW ids, NEW x \in RowsOf(r, ids)
  PROVE  /\ x \in [note : Notes, row : NoteRows] /\ x.note \in ids
         /\ Owns(req[r].actor, req[r].email, x.row) => <<x.note, "owner">> \in conferred[r]
<1>1. PICK n \in ids \cap Existing : x = [note |-> n, row |-> notes[n]]
  BY DEF RowsOf
<1>2. n \in Notes /\ notes[n] \in NoteRows /\ notes[n] # NoNote /\ DOMAIN notes = Notes
  BY <1>1 DEF Existing, Inv, Types, Shape
<1>3. Owns(req[r].actor, req[r].email, notes[n]) => <<n, "owner">> \in Grants(req[r].actor, req[r].email, notes, shares)
  BY <1>2 DEF Grants
<1> QED BY <1>1, <1>2, <1>3 DEF Inv, Granted

\* So are the shares.
LEMMA SharesGranted ==
  ASSUME Inv, NEW r \in Requests, Active(r), NEW s \in shares,
         s.target \in {req[r].actor, req[r].email}
  PROVE  <<s.note, s.permission>> \in conferred[r]
  BY DEF Grants, Inv, Granted

\* A query that goes on to the next.
LEMMA GotoPassive ==
  ASSUME Inv, Record, NEW r \in Requests, Active(r), UNCHANGED <<store, req, alone, raced, unread>>,
         NEW p \in ListPhases \cup {"role_by_user", "role_by_email"}, Goto(r, p),
         p \in ListPhases <=> req[r].kind = "list",
         \A q \in Requests \ {r} : owned'[q] = owned[q] /\ found'[q] = found[q],
         owned' = [q \in Requests |-> owned'[q]], found' = [q \in Requests |-> found'[q]],
         owned'[r] \subseteq [note : Notes, row : NoteRows], found'[r] \subseteq Rows,
         \A x \in owned'[r] : Owns(req[r].actor, req[r].email, x.row) => <<x.note, "owner">> \in conferred[r],
         \A s \in found'[r] : <<s.note, s.permission>> \in conferred[r],
         p = "role_by_email" => \A s \in found'[r] : s.note = req[r].note
  PROVE  Inv'
<1>1. /\ pc'[r] = p /\ UNCHANGED <<answer, served>>
      /\ \A q \in Requests \ {r} : Kept(q)
      /\ FunctionShapes'
  BY DEF Goto, Inv, Types, Shape, Kept, FunctionShapes
<1>2. /\ p \in Middle /\ p \notin {"idle", "done", "insert"} \cup OwnerPhases
      /\ p \in ListPhases \/ p \in AccessPhases
  BY DEF Middle, ListPhases, AccessPhases, OwnerPhases
<1>3. req[r] \in Kinds /\ ~BadPayload(req[r]) /\ answer[r] = "none"
  BY DEF Inv, Types, Stage, Active
<1>4. req[r].actor \in Users
  BY <1>3, KindsTyped
<1>5. Stage(r)'
  BY <1>1, <1>2, <1>3, <1>4
  DEF Stage, Active, store, Rows, ListPhases, AccessPhases, OwnerPhases, BadPayload, Writes
<1>6. Passive(r)
  BY <1>1, <1>2, <1>3, <1>5 DEF Passive, StepOf, Active
<1>7. conferred[r] \subseteq conferred'[r] /\ served[r] \subseteq conferred[r]
  BY RecordGrows DEF Inv, Granted, Read
<1>8. Read(r)'
  BY <1>1, <1>2, <1>7 DEF Read
<1> QED BY <1>6, <1>8, PassiveStep

LEMMA OwnByUserStep ==
  ASSUME Inv, Record, NEW r \in Requests, NEW body \in {"rows", "empty"}, OwnByUser(r, body) \/ OwnByEmail(r, body)
  PROVE  Inv'
<1>1. /\ Active(r) /\ UNCHANGED <<store, req, alone, raced, unread, found>> /\ req[r].kind = "list"
      /\ pc[r] \in ListPhases
  BY DEF OwnByUser, OwnByEmail, Active, ListPhases, Inv, Types, Stage
<1>2. PICK p \in ListPhases : Goto(r, p)
  BY DEF OwnByUser, OwnByEmail, ListPhases
<1>3. /\ owned' = [q \in Requests |-> owned'[q]]
      /\ \A q \in Requests \ {r} : owned'[q] = owned[q]
      /\ \E ids : \A x \in owned'[r] : x \in owned[r] \/ x \in RowsOf(r, ids)
  <2>1. CASE OwnByUser(r, body)
    BY <2>1 DEF OwnByUser, RowsIn, Inv, Types, Shape, FunctionShapes
  <2>2. CASE OwnByEmail(r, body)
    BY <2>2 DEF OwnByEmail, RowsIn, KeepFirst, Inv, Types, Shape, FunctionShapes
  <2> QED BY <2>1, <2>2
<1>4. /\ owned'[r] \subseteq [note : Notes, row : NoteRows]
      /\ \A x \in owned'[r] : Owns(req[r].actor, req[r].email, x.row) => <<x.note, "owner">> \in conferred[r]
  BY <1>1, <1>3, RowsGranted DEF Inv, Types, Stage, Granted, Read
<1>5. /\ found[r] \subseteq Rows /\ found = [q \in Requests |-> found[q]]
      /\ \A s \in found[r] : <<s.note, s.permission>> \in conferred[r]
  BY <1>1 DEF Inv, Types, Shape, FunctionShapes, Stage, Granted, Read
<1>6. p # "role_by_email"
  BY DEF ListPhases
<1> QED BY <1>1, <1>2, <1>3, <1>4, <1>5, <1>6, GotoPassive

LEMMA SharedStep ==
  ASSUME Inv, Record, NEW r \in Requests, NEW body \in {"rows", "empty"}, SharedByUser(r, body) \/ SharedByEmail(r, body)
  PROVE  Inv'
<1>1. /\ Active(r) /\ UNCHANGED <<store, req, alone, raced, unread, owned>> /\ req[r].kind = "list"
      /\ pc[r] \in ListPhases
  BY DEF SharedByUser, SharedByEmail, Active, ListPhases, Inv, Types, Stage
<1>2. PICK p \in ListPhases : Goto(r, p)
  BY DEF SharedByUser, SharedByEmail, ListPhases
<1>3. /\ found' = [q \in Requests |-> found'[q]]
      /\ \A q \in Requests \ {r} : found'[q] = found[q]
      /\ \A s \in found'[r] : s \in found[r] \/
            (s \in shares /\ s.target \in {req[r].actor, req[r].email})
  BY DEF SharedByUser, SharedByEmail, RowsIn, Inv, Types, Shape, FunctionShapes
<1>4. /\ found'[r] \subseteq Rows
      /\ \A s \in found'[r] : <<s.note, s.permission>> \in conferred[r]
  BY <1>1, <1>3, SharesGranted DEF Inv, Types, Shape, FunctionShapes, Stage, Granted, Read
<1>5. /\ owned[r] \subseteq [note : Notes, row : NoteRows] /\ owned = [q \in Requests |-> owned[q]]
      /\ \A x \in owned[r] : Owns(req[r].actor, req[r].email, x.row) => <<x.note, "owner">> \in conferred[r]
  BY <1>1 DEF Inv, Types, Shape, FunctionShapes, Stage, Granted, Read
<1>6. p # "role_by_email"
  BY DEF ListPhases
<1> QED BY <1>1, <1>2, <1>3, <1>4, <1>5, <1>6, GotoPassive

\* A request that is answered, with roles that were conferred.
LEMMA ServePassive ==
  ASSUME Inv, Record, NEW r \in Requests, Active(r), UNCHANGED <<store, req, owned, alone, raced, unread>>,
         NEW a, a # "none", a = "ok" => ~Writes(req[r]),
         NEW R, R \subseteq conferred[r], Serve(r, a, R),
         found' = [q \in Requests |-> found'[q]], found'[r] \subseteq Rows,
         \A q \in Requests \ {r} : found'[q] = found[q]
  PROVE  Inv'
<1>1. /\ pc'[r] = "done" /\ answer'[r] = a /\ served'[r] = R
      /\ \A q \in Requests \ {r} : Kept(q)
      /\ FunctionShapes'
  BY DEF Serve, Inv, Types, Shape, Kept, FunctionShapes
<1>2. req[r].actor \in Users
  BY KindsTyped DEF Inv, Types, Stage
<1>3. Stage(r)'
  BY <1>1, <1>2 DEF Inv, Types, Stage, Active, store, Rows, ListPhases, AccessPhases
<1>4. Passive(r)
  BY <1>1, <1>3 DEF Passive, StepOf, Active
<1>5. Read(r)'
  BY <1>1, RecordGrows DEF Read, Active, OwnerPhases
<1> QED BY <1>4, <1>5, PassiveStep

\* The role the shares found give was conferred.
LEMMA RoleConferred ==
  ASSUME Inv, NEW r \in Requests, NEW S, S \subseteq Rows, NEW n,
         \A s \in S : s.note = n /\ <<s.note, s.permission>> \in conferred[r],
         RoleFrom(S) # "none"
  PROVE  <<n, RoleFrom(S)>> \in conferred[r]
<1>1. S # {} /\ RoleFrom(S) = NewestOf(S).permission
  BY DEF RoleFrom
<1>2. NewestOf(S) \in S
  BY <1>1, NewestOfRows DEF Inv, Types, Shape
<1> QED BY <1>1, <1>2

LEMMA ByIdsStep ==
  ASSUME Inv, Record, NEW r \in Requests, NEW body \in {"rows", "empty"}, ByIds(r, body)
  PROVE  Inv'
<1> DEFINE ids == {s.note : s \in found[r]}
           rows == KeepFirst(owned[r], RowsIn(body, RowsOf(r, ids)))
           Of(x) == {s \in found[r] : s.note = x.note}
           role(x) == ListedRole(req[r].actor, req[r].email, x.row, Of(x))
           R == {<<x.note, role(x)>> : x \in {y \in rows : role(y) # "none"}}
<1>1. /\ Active(r) /\ UNCHANGED <<store, req, owned, alone, raced, unread, found>> /\ ~Writes(req[r])
      /\ Serve(r, "ok", R)
  BY DEF ByIds, local, Active, ListPhases, Inv, Types, Stage, Writes
<1>2. ASSUME NEW x \in rows, role(x) # "none" PROVE <<x.note, role(x)>> \in conferred[r]
  <2>1. x \in owned[r] \/ x \in RowsOf(r, ids)
    BY <1>2 DEF KeepFirst, RowsIn
  <2>2. Owns(req[r].actor, req[r].email, x.row) => <<x.note, "owner">> \in conferred[r]
    BY <1>1, <2>1, RowsGranted DEF Inv, Granted, Read
  <2>3. Of(x) \subseteq Rows /\ \A s \in Of(x) : s.note = x.note /\ <<s.note, s.permission>> \in conferred[r]
    BY <1>1 DEF Inv, Types, Stage, Granted, Read
  <2>4. RoleFrom(Of(x)) # "none" => <<x.note, RoleFrom(Of(x))>> \in conferred[r]
    <3> HIDE DEF Of
    <3> QED BY <2>3, RoleConferred
  <2> QED BY <1>2, <2>2, <2>4 DEF ListedRole
<1>3. R \subseteq conferred[r]
  BY <1>2
<1>4. found[r] \subseteq Rows /\ found = [q \in Requests |-> found[q]]
  BY DEF Inv, Types, Shape, FunctionShapes, Stage
<1> HIDE DEF R
<1> QED BY <1>1, <1>3, <1>4, ServePassive

\* resolve_note_access has found a role: the request is answered, or its
\* caller owned the note and it goes on.
LEMMA AccessStep ==
  ASSUME Inv, Record, NEW r \in Requests, pc[r] \in AccessPhases,
         UNCHANGED <<store, req, owned, alone, raced, unread>>,
         NEW role, NEW row, AfterAccess(r, role, row),
         role # "none" => <<req[r].note, role>> \in conferred[r],
         found' = [q \in Requests |-> found'[q]], found'[r] \subseteq Rows,
         \A s \in found'[r] : <<s.note, s.permission>> \in conferred[r],
         \A q \in Requests \ {r} : found'[q] = found[q]
  PROVE  Inv'
<1>1. /\ Active(r) /\ req[r] \in Kinds /\ ~BadPayload(req[r])
      /\ req[r].kind \in {"get", "shares", "upsert", "remove"}
      /\ req[r].actor \in Users /\ answer[r] = "none"
  <2>1. Active(r) /\ req[r] \in Kinds /\ ~BadPayload(req[r]) /\ req[r].kind # "list" /\ answer[r] = "none"
    BY DEF AccessPhases, Active, Inv, Types, Stage
  <2> QED BY <2>1, KindsTyped
<1>2. \/ \E a \in {"not_found", "forbidden", "bad_request"} : Serve(r, a, {})
      \/ /\ req[r].kind = "get" /\ role # "none" /\ Serve(r, "ok", {<<req[r].note, role>>})
      \/ /\ role = "owner"
         /\ \/ req[r].kind = "shares" /\ Goto(r, "read_shares")
            \/ req[r].kind = "upsert" /\ Goto(r, "patch")
            \/ req[r].kind = "remove" /\ Goto(r, "delete")
  <2>1. CASE role = "none"
    BY <2>1, <1>1 DEF AfterAccess, Reply, CanShare
  <2>2. CASE role # "none" /\ req[r].kind = "get"
    BY <2>2 DEF AfterAccess, Reply, CanShare
  <2>3. CASE role # "none" /\ req[r].kind # "get" /\ role # "owner"
    BY <2>3 DEF AfterAccess, Reply, CanShare
  <2>4. CASE role = "owner" /\ req[r].kind \in {"shares", "upsert", "remove"}
    BY <2>4 DEF AfterAccess, Reply, CanShare
  <2> QED BY <1>1, <2>1, <2>2, <2>3, <2>4
<1>3. ASSUME NEW a \in {"not_found", "forbidden", "bad_request"}, Serve(r, a, {}) PROVE Inv'
  BY <1>1, <1>3, ServePassive
<1>4. CASE /\ req[r].kind = "get" /\ role # "none" /\ Serve(r, "ok", {<<req[r].note, role>>})
  BY <1>1, <1>4, ServePassive DEF Writes
<1>5. ASSUME role = "owner", NEW p \in {"read_shares", "patch", "delete"}, Goto(r, p),
             p = "read_shares" => req[r].kind = "shares",
             p = "patch" => req[r].kind = "upsert", p = "delete" => req[r].kind = "remove"
      PROVE  Inv'
  <2>1. /\ pc'[r] = p /\ UNCHANGED <<answer, served>>
        /\ \A q \in Requests \ {r} : Kept(q)
        /\ FunctionShapes'
    BY <1>5 DEF Goto, Inv, Types, Shape, Kept, FunctionShapes
  <2>2. Stage(r)'
    BY <1>1, <1>5, <2>1
    DEF Inv, Types, Stage, Active, store, Rows, Middle, ListPhases, AccessPhases, OwnerPhases,
        BadPayload, Writes
  <2>3. Passive(r)
    BY <1>1, <1>5, <2>1, <2>2 DEF Passive, StepOf, Active
  <2>4. conferred[r] \subseteq conferred'[r] /\ Read(r)
    BY RecordGrows DEF Inv, Granted
  <2>5. Read(r)'
    BY <1>1, <1>5, <2>1, <2>4 DEF Read
  <2> QED BY <2>3, <2>5, PassiveStep
<1> QED BY <1>2, <1>3, <1>4, <1>5

LEMMA ReadNoteStep ==
  ASSUME Inv, Record, NEW r \in Requests, NEW body \in {"rows", "empty"}, ReadNote(r, body)
  PROVE  Inv'
<1> DEFINE row == IF body = "empty" THEN NoNote ELSE notes[req[r].note]
<1>1. /\ pc[r] = "note" /\ pc[r] \in AccessPhases /\ Active(r) /\ req[r].kind # "list"
      /\ UNCHANGED <<store, req, owned, found, alone, raced, unread>>
  BY DEF ReadNote, AccessPhases, Active, Inv, Types, Stage
<1>2. req[r].note \in Notes
  BY <1>1, KindsTyped DEF Inv, Types, Stage
<1>3. /\ found[r] \subseteq Rows /\ found = [q \in Requests |-> found[q]]
      /\ owned[r] \subseteq [note : Notes, row : NoteRows] /\ owned = [q \in Requests |-> owned[q]]
      /\ \A s \in found[r] : <<s.note, s.permission>> \in conferred[r]
      /\ \A x \in owned[r] : Owns(req[r].actor, req[r].email, x.row) => <<x.note, "owner">> \in conferred[r]
  BY <1>1 DEF Inv, Types, Shape, FunctionShapes, Stage, Granted, Read
<1>4. CASE Reply(r, "not_found")
  BY <1>1, <1>3, <1>4, ServePassive DEF Reply
<1>5. CASE row # NoNote /\ Owns(req[r].actor, req[r].email, row) /\ AfterAccess(r, "owner", row)
  <2>1. <<req[r].note, "owner">> \in Grants(req[r].actor, req[r].email, notes, shares)
    <3>1. row = notes[req[r].note] /\ DOMAIN notes = Notes
      BY <1>5 DEF Inv, Types, Shape
    <3> QED BY <1>2, <1>5, <3>1 DEF Grants
  <2>2. <<req[r].note, "owner">> \in conferred[r]
    BY <1>1, <2>1 DEF Inv, Granted
  <2> QED BY <1>1, <1>3, <1>5, <2>2, AccessStep
<1>6. CASE Goto(r, "role_by_user")
  <2>1. "role_by_user" \notin ListPhases
    BY DEF ListPhases
  <2> QED BY <1>1, <1>3, <1>6, <2>1, GotoPassive
<1> QED BY <1>4, <1>5, <1>6 DEF ReadNote

LEMMA RoleStep ==
  ASSUME Inv, Record, NEW r \in Requests, NEW body \in {"rows", "empty"}, RoleByUser(r, body) \/ RoleByEmail(r, body)
  PROVE  Inv'
<1>1. /\ pc[r] \in AccessPhases /\ Active(r) /\ req[r].kind # "list"
      /\ UNCHANGED <<store, req, owned, alone, raced, unread>>
  BY DEF RoleByUser, RoleByEmail, AccessPhases, Active, Inv, Types, Stage
<1>2. PICK S : /\ found' = [found EXCEPT ![r] = S]
               /\ \A s \in S : \/ s \in SharesWith(req[r].note, req[r].actor)
                               \/ s \in SharesWith(req[r].note, req[r].email)
                               \/ pc[r] = "role_by_email" /\ s \in found[r]
               /\ Goto(r, "role_by_email") \/ AfterAccess(r, RoleFrom(S), note[r])
  <2>1. CASE RoleByUser(r, body)
    <3> DEFINE S == RowsIn(body, Newest(SharesWith(req[r].note, req[r].actor)))
    <3>1. \A s \in S : s \in SharesWith(req[r].note, req[r].actor)
      BY DEF Newest, RowsIn
    <3>2. /\ found' = [found EXCEPT ![r] = S]
          /\ Goto(r, "role_by_email") \/ AfterAccess(r, RoleFrom(S), note[r])
      BY <2>1 DEF RoleByUser
    <3> HIDE DEF S
    <3> QED BY <3>1, <3>2
  <2>2. CASE RoleByEmail(r, body)
    BY <2>2 DEF RoleByEmail, Newest, RowsIn
  <2> QED BY <2>1, <2>2
<1>3. /\ S \subseteq Rows
      /\ \A s \in S : s.note = req[r].note /\ <<s.note, s.permission>> \in conferred[r]
  <2> SUFFICES ASSUME NEW s \in S
               PROVE  s \in Rows /\ s.note = req[r].note /\ <<s.note, s.permission>> \in conferred[r]
    OBVIOUS
  <2>1. CASE pc[r] = "role_by_email" /\ s \in found[r]
    BY <1>1, <2>1 DEF Inv, Types, Stage, Granted, Read
  <2>2. CASE \/ s \in SharesWith(req[r].note, req[r].actor)
             \/ s \in SharesWith(req[r].note, req[r].email)
    BY <1>1, <2>2, SharesGranted DEF SharesWith, Inv, Types, Shape
  <2> QED BY <1>2, <2>1, <2>2
<1>4. /\ found'[r] = S /\ found' = [q \in Requests |-> found'[q]]
      /\ \A q \in Requests \ {r} : found'[q] = found[q]
  BY <1>2 DEF Inv, Types, Shape, FunctionShapes
<1>5. CASE Goto(r, "role_by_email")
  <2>1. "role_by_email" \notin ListPhases
    BY DEF ListPhases
  <2>2. /\ owned[r] \subseteq [note : Notes, row : NoteRows] /\ owned = [q \in Requests |-> owned[q]]
        /\ \A x \in owned[r] : Owns(req[r].actor, req[r].email, x.row) => <<x.note, "owner">> \in conferred[r]
    BY <1>1 DEF Inv, Types, Shape, FunctionShapes, Stage, Granted, Read
  <2> QED BY <1>1, <1>3, <1>4, <1>5, <2>1, <2>2, GotoPassive
<1>6. CASE AfterAccess(r, RoleFrom(S), note[r])
  <2>1. RoleFrom(S) # "none" => <<req[r].note, RoleFrom(S)>> \in conferred[r]
    BY <1>3, RoleConferred
  <2> QED BY <1>1, <1>3, <1>4, <1>6, <2>1, AccessStep
<1> QED BY <1>2, <1>5, <1>6

-----------------------------------------------------------------------------
(* Arrival. *)

LEMMA SubmitStep ==
  ASSUME Inv, Record, NEW r \in Requests, NEW k \in Kinds, Submit(r, k)
  PROVE  Inv'
<1>1. /\ pc[r] = "idle" /\ answer[r] = "none" /\ owned[r] = {} /\ found[r] = {}
      /\ UNCHANGED <<notes, shares, clock, unique, owned, found>>
  BY DEF Submit, store, local, Inv, Types, Stage
<1>2. /\ req'[r] = k /\ FunctionShapes' /\ \A q \in Requests \ {r} : Kept(q)
      /\ \/ BadPayload(k) /\ pc'[r] = "done" /\ answer'[r] = "bad_request" /\ served'[r] = {}
         \/ /\ ~BadPayload(k) /\ answer'[r] = "none" /\ served'[r] = served[r]
            /\ \/ k.kind = "list" /\ pc'[r] = "own_by_user"
               \/ k.kind # "list" /\ pc'[r] = "note"
  BY <1>1 DEF Submit, Goto, Reply, Serve, Kept, Inv, Types, Shape, FunctionShapes
<1>3. Stage(r)'
  BY <1>1, <1>2
  DEF Stage, Active, Middle, ListPhases, AccessPhases, OwnerPhases, BadPayload, Writes
<1>4. StepOf(r)
  BY <1>1, <1>2, <1>3 DEF StepOf
<1>5. Types'
  <2>1. \A q \in Requests : Stage(q)'
    BY <1>1, <1>4, StepStages DEF Inv, Types, Shape
  <2>2. Shape'
    BY <1>1, <1>2 DEF Inv, Types, Shape, Rows
  <2> QED BY <2>1, <2>2 DEF Types
<1>6. Granted'
  <2>1. Read(r)'
    BY <1>1, <1>2, RecordGrows DEF Inv, Granted, Read, Active, OwnerPhases
  <2> QED BY <1>4, <2>1, StepGranted DEF Inv
<1>7. \A q \in Requests \ {r} : (Active(q)' <=> Active(q)) /\ req'[q] = req[q]
  BY <1>2 DEF Kept, Active
<1>8. ~Active(r) /\ pc'[r] # "insert" /\ answer'[r] # "ok"
  BY <1>1, <1>2 DEF Active
<1>9. Solo'
  <2> SUFFICES ASSUME NEW q \in Requests, alone'[q], Writes(req[q])'
               PROVE  /\ \A o \in Requests \ {q} : Active(o)' => ~SameShare(req'[q], req'[o])
                      /\ InForce(q)'
    BY DEF Solo, SameShare, Writes
  <2>1. CASE q = r
    <3>1. \A o \in Requests : ~(Active(o) /\ SameShare(k, req[o]))
      BY <2>1 DEF Submit
    <3>2. InForce(q)'
      BY <1>8, <2>1 DEF InForce
    <3> QED BY <1>2, <1>7, <2>1, <3>1, <3>2
  <2>2. CASE q # r
    <3>1. alone[q] /\ ~SameShare(k, req[q]) /\ Kept(q) /\ Writes(req[q])
      BY <1>2, <2>2 DEF Submit, Kept, Writes
    <3>2. InForce(q) /\ \A o \in Requests \ {q} : Active(o) => ~SameShare(req[q], req[o])
      BY <3>1 DEF Inv, Solo
    <3>3. InForce(q)'
      BY <1>1, <3>1, <3>2 DEF InForce, Kept, SharesWith
    <3>4. ~SameShare(req'[q], k)
      BY <3>1 DEF SameShare, Kept
    <3> QED BY <1>2, <1>7, <2>2, <3>2, <3>3, <3>4
  <2> QED BY <2>1, <2>2
<1>10. Racing'
  <2>0. unread' = unread
    BY DEF Submit
  <2>1. raced \subseteq raced'
    BY DEF Submit
  <2>2. ASSUME NEW q \in Requests \ {r}, Active(q), SameShare(k, req[q]),
               k.kind = "upsert", req[q].kind = "upsert"
        PROVE  <<k.note, k.target>> \in raced'
    <3>1. {k.kind, req[q].kind} = {"upsert"}
      BY <2>2
    <3> QED BY <2>2, <3>1 DEF Submit
  <2>3. ASSUME NEW q \in Requests, NEW o \in Requests, q # o, Active(q)', Active(o)',
               SameShare(req'[q], req'[o]), req'[q].kind = "upsert", req'[o].kind = "upsert"
        PROVE  <<req'[q].note, req'[q].target>> \in raced'
    <3>1. CASE q = r
      BY <1>2, <1>7, <2>2, <2>3, <3>1
    <3>2. CASE o = r
      <4>1. SameShare(k, req[q]) /\ req[q].note = k.note /\ req[q].target = k.target
        BY <1>2, <1>7, <2>3, <3>2 DEF SameShare
      <4> QED BY <1>2, <1>7, <2>2, <2>3, <3>2, <4>1
    <3>3. CASE q # r /\ o # r
      BY <1>7, <2>1, <2>3, <3>3 DEF Inv, Racing
    <3> QED BY <3>1, <3>2, <3>3
  <2>4. ASSUME NEW q \in Requests, pc'[q] = "insert",
               SharesWith(req[q].note, req[q].target)' # {}
        PROVE  <<req'[q].note, req'[q].target>> \in Caused'
    <3>1. q # r /\ Kept(q)
      BY <1>2, <1>8, <2>4
    <3> QED BY <1>1, <2>0, <2>1, <2>4, <3>1 DEF Inv, Racing, Caused, Kept, SharesWith
  <2>5. \A s, o \in shares' : s # o /\ s.note = o.note /\ s.target = o.target =>
            <<s.note, s.target>> \in Caused'
    BY <1>1, <2>0, <2>1 DEF Inv, Racing, Caused
  <2> QED BY <2>3, <2>4, <2>5 DEF Racing, SameShare, Writes, Active
<1> QED BY <1>5, <1>6, <1>9, <1>10 DEF Inv

-----------------------------------------------------------------------------
(* The writes.  A write only touches the shares of its note and target. *)

LEMMA WriteStep ==
  ASSUME Inv, Record, NEW r \in Requests, pc[r] \in {"patch", "insert", "delete"}, StepOf(r),
         UNCHANGED <<notes, unique, req, alone, raced, owned, found>>, unread \subseteq unread',
         clock' \in Nat, clock <= clock', shares' \subseteq Rows',
         \A n, t : (n # req[r].note \/ t # req[r].target) =>
                {s \in shares' : s.note = n /\ s.target = t} = SharesWith(n, t),
         unique => \A s, o \in shares' : s.note = o.note /\ s.target = o.target => s = o,
         pc'[r] \in {"insert", "done"}, served'[r] \in {served[r], {}},
         alone[r] => InForce(r)',
         \A q \in Requests : pc'[q] = "insert" /\ SharesWith(req[q].note, req[q].target)' # {} =>
                <<req[q].note, req[q].target>> \in Caused',
         \A s, o \in shares' : s # o /\ s.note = o.note /\ s.target = o.target =>
                <<s.note, s.target>> \in Caused'
  PROVE  Inv'
<1>1. Active(r) /\ pc[r] \in OwnerPhases
  BY DEF Active, OwnerPhases
<1>w. Writes(req[r])
  BY DEF Inv, Types, Stage, Writes
<1>2. Types'
  <2>1. \A q \in Requests : Stage(q)'
    BY StepStages DEF Inv
  <2>2. Shape'
    BY DEF Inv, Types, Shape, StepOf
  <2> QED BY <2>1, <2>2 DEF Types
<1>3. Read(r)'
  <2>1. conferred[r] \subseteq conferred'[r] /\ Read(r)
    BY RecordGrows DEF Inv, Granted
  <2> QED BY <1>1, <2>1 DEF Read, Active
<1>4. Granted'
  BY <1>3, StepGranted DEF Inv
<1>5. \A q \in Requests : Active(q)' => Active(q)
  BY <1>1 DEF StepOf, Kept, Active
<1>6. Solo'
  <2> SUFFICES ASSUME NEW q \in Requests, alone[q], Writes(req[q])
               PROVE  /\ \A o \in Requests \ {q} : Active(o)' => ~SameShare(req[q], req[o])
                      /\ InForce(q)'
    BY DEF Solo, SameShare, Writes
  <2>1. InForce(q) /\ \A o \in Requests \ {q} : Active(o) => ~SameShare(req[q], req[o])
    BY DEF Inv, Solo
  <2>2. CASE q # r
    <3>1. req[q].note # req[r].note \/ req[q].target # req[r].target
      BY <1>1, <1>w, <2>1, <2>2 DEF SameShare
    <3>2. SharesWith(req[q].note, req[q].target)' = SharesWith(req[q].note, req[q].target)
      BY <3>1 DEF SharesWith
    <3>3. Kept(q)
      BY <2>2 DEF StepOf
    <3>4. InForce(q)'
      BY <2>1, <3>2, <3>3 DEF InForce, Kept
    <3> QED BY <1>5, <2>1, <3>4
  <2> QED BY <1>5, <2>1, <2>2
<1>7. Racing'
  BY <1>5 DEF Inv, Racing, SameShare, Writes
<1> QED BY <1>2, <1>4, <1>6, <1>7 DEF Inv

\* The frame of a write, whether it is answered or goes on to the insert.
LEMMA WriteFrame ==
  ASSUME Inv, NEW r \in Requests, pc[r] \in {"patch", "insert", "delete"},
         UNCHANGED <<local, req>>, clock' \in Nat, clock <= clock',
         \/ \E a : a # "none" /\ Reply(r, a)
         \/ pc[r] = "patch" /\ Goto(r, "insert")
  PROVE  /\ StepOf(r) /\ UNCHANGED <<owned, found>>
         /\ pc'[r] \in {"insert", "done"} /\ served'[r] \in {served[r], {}}
         /\ answer[r] = "none" /\ Writes(req[r]) /\ req[r] \in Kinds
         /\ req[r].note \in Notes /\ req[r].target \in Targets
<1>1. /\ Active(r) /\ req[r] \in Kinds /\ ~BadPayload(req[r]) /\ answer[r] = "none"
      /\ pc[r] \in {"patch", "insert"} => req[r].kind = "upsert"
      /\ pc[r] = "delete" => req[r].kind = "remove"
      /\ owned[r] \subseteq [note : Notes, row : NoteRows] /\ found[r] \subseteq Rows
      /\ req[r].actor \in Users
  <2>1. Active(r) /\ Stage(r)
    BY DEF Inv, Types, Active
  <2> QED BY <2>1, KindsTyped DEF Stage
<1>2. req[r].note \in Notes /\ req[r].target \in Targets /\ Writes(req[r])
  BY <1>1, KindsTyped DEF BadPayload, Writes
<1>3. Rows \subseteq Rows'
  BY DEF Rows, Inv, Types, Shape
<1>4. /\ UNCHANGED <<owned, found>>
      /\ \A q \in Requests \ {r} : Kept(q)
      /\ FunctionShapes'
      /\ \/ \E a : a # "none" /\ pc'[r] = "done" /\ answer'[r] = a /\ served'[r] = {}
         \/ pc[r] = "patch" /\ pc'[r] = "insert" /\ UNCHANGED <<answer, served>>
  BY DEF local, Reply, Serve, Goto, Kept, Inv, Types, Shape, FunctionShapes
<1>5. Stage(r)'
  BY <1>1, <1>3, <1>4
  DEF Stage, Active, Middle, ListPhases, AccessPhases, OwnerPhases, BadPayload, Writes
<1> QED BY <1>1, <1>2, <1>4, <1>5 DEF StepOf

LEMMA PatchStep ==
  ASSUME Inv, Record, NEW r \in Requests, NEW reply \in {"ok", "empty", "rejected", "unsent", "lost"},
         PatchShare(r, reply)
  PROVE  Inv'
<1> DEFINE k == req[r]
           S == SharesWith(k.note, k.target)
           M == {[s EXCEPT !.permission = k.permission] : s \in S}
<1>1. /\ pc[r] = "patch" /\ UNCHANGED <<notes, clock, unique, local, req, alone, raced>>
      /\ clock \in Nat /\ shares \subseteq Rows
  BY DEF PatchShare, Inv, Types, Shape
<1>2. \/ ~Succeeded(reply) /\ (\E a : a \notin {"none", "ok"} /\ Reply(r, a))
      \/ Succeeded(reply) /\ (S = {} \/ <<k.note, k.target>> \in unread') /\ Goto(r, "insert")
      \/ Succeeded(reply) /\ S # {} /\ Reply(r, "ok")
  BY DEF PatchShare, NeedsInsert, AnswerOf, RowsIn, Succeeded
<1>u. unread \subseteq unread'
  BY DEF PatchShare
<1>3. /\ StepOf(r) /\ UNCHANGED <<owned, found>>
      /\ pc'[r] \in {"insert", "done"} /\ served'[r] \in {served[r], {}}
      /\ answer[r] = "none" /\ k \in Kinds
  BY <1>1, <1>2, WriteFrame
<1>4. k.permission \in Permissions /\ k.kind = "upsert"
  BY <1>1 DEF Inv, Types, Stage, Active, BadPayload
<1>5. S \subseteq shares /\ \A s \in S : s.note = k.note /\ s.target = k.target
  BY DEF SharesWith
<1>6. ASSUME NEW s \in S
      PROVE  /\ [s EXCEPT !.permission = k.permission] \in Rows
             /\ [s EXCEPT !.permission = k.permission].permission = k.permission
             /\ [s EXCEPT !.permission = k.permission].note = k.note
             /\ [s EXCEPT !.permission = k.permission].target = k.target
  BY <1>1, <1>4, <1>5 DEF Rows
<1>7. \/ shares' = shares /\ ~Succeeded(reply)
      \/ shares' = (shares \ S) \cup M
  BY DEF PatchShare, Effective
<1>8. shares' \subseteq Rows'
  BY <1>1, <1>6, <1>7 DEF Rows
<1>9. ASSUME NEW n, NEW t, n # k.note \/ t # k.target
      PROVE  {s \in shares' : s.note = n /\ s.target = t} = SharesWith(n, t)
  BY <1>5, <1>6, <1>7, <1>9 DEF SharesWith
\* Two rows of the patched table come from two rows of the table before.
<1>10. ASSUME NEW s \in shares', NEW o \in shares', s # o, s.note = o.note, s.target = o.target
       PROVE  \E x, y \in shares : x # y /\ x.note = s.note /\ x.target = s.target
                                   /\ y.note = s.note /\ y.target = s.target
  <2>1. CASE shares' = shares
    BY <1>10, <2>1
  <2>2. CASE shares' = (shares \ S) \cup M /\ s \in M /\ o \in M
    <3>1. PICK x \in S, y \in S : /\ s = [x EXCEPT !.permission = k.permission]
                                  /\ o = [y EXCEPT !.permission = k.permission]
      BY <2>2
    <3>2. x # y
      BY <1>10, <3>1, SMTT(30)
    <3>3. s.note = k.note /\ s.target = k.target
      BY <1>6, <3>1
    <3> QED BY <1>5, <3>2, <3>3
  <2>3. CASE shares' = (shares \ S) \cup M /\ (s \notin M \/ o \notin M)
    <3>1. ASSUME NEW x \in shares \ S PROVE ~(x.note = k.note /\ x.target = k.target)
      BY DEF SharesWith
    <3>2. s \notin M /\ o \notin M
      <4>1. \A x \in M : x.note = k.note /\ x.target = k.target
        BY <1>6
      <4>2. (s \in M => o \in M) /\ (o \in M => s \in M)
        BY <1>10, <2>3, <3>1, <4>1
      <4> QED BY <2>3, <4>2
    <3> QED BY <1>10, <2>3, <3>2
  <2> QED BY <1>7, <2>1, <2>2, <2>3
<1>11. unique => \A s, o \in shares' : s.note = o.note /\ s.target = o.target => s = o
  BY <1>10 DEF Inv, Types, Shape
<1>12. \A s, o \in shares' : s # o /\ s.note = o.note /\ s.target = o.target =>
            <<s.note, s.target>> \in Caused'
  BY <1>1, <1>u, <1>10 DEF Inv, Racing, Caused
\* The shares with the target that is written are the patched ones.
<1>13. SharesWith(k.note, k.target)' \in {S, M} /\ (Succeeded(reply) => SharesWith(k.note, k.target)' = M)
  <2>1. SharesWith(k.note, k.target)' = {s \in shares' : s.note = k.note /\ s.target = k.target}
    BY <1>1 DEF SharesWith
  <2>2. CASE shares' = shares /\ ~Succeeded(reply)
    BY <2>1, <2>2 DEF SharesWith
  <2>3. CASE shares' = (shares \ S) \cup M
    <3>1. \A s \in shares \ S : ~(s.note = k.note /\ s.target = k.target)
      BY DEF SharesWith
    <3>2. \A s \in M : s.note = k.note /\ s.target = k.target
      BY <1>6
    <3>3. {s \in shares' : s.note = k.note /\ s.target = k.target} = M
      <4> HIDE DEF S, M
      <4> QED BY <2>3, <3>1, <3>2
    <3> QED BY <2>1, <3>3
  <2> QED BY <1>7, <2>2, <2>3
<1>14. S = {} => M = {}
  OBVIOUS
<1>15. alone[r] => InForce(r)'
  <2>1. CASE ~Succeeded(reply)
    <3>1. pc'[r] = "done" /\ answer'[r] # "ok"
      BY <1>2, <2>1 DEF Reply, Serve, Inv, Types, Shape, FunctionShapes
    <3> QED BY <3>1 DEF InForce
  <2>2. CASE Succeeded(reply) /\ Goto(r, "insert")
    <3>1. \A s \in SharesWith(k.note, k.target)' : s.permission = k.permission
      <4>1. SharesWith(k.note, k.target)' = M
        BY <1>13, <2>2
      <4>2. \A s \in M : s.permission = k.permission
        BY <1>6
      <4> HIDE DEF M
      <4> QED BY <4>1, <4>2
    <3> QED BY <1>1, <1>3, <2>2, <3>1 DEF InForce, Goto
  <2>3. CASE Succeeded(reply) /\ S # {} /\ Reply(r, "ok")
    <3>1. pc'[r] = "done"
      BY <2>3 DEF Reply, Serve, Inv, Types, Shape, FunctionShapes
    <3>2. {s.permission : s \in M} = {k.permission}
      BY <1>6, <2>3
    <3> QED BY <1>1, <1>4, <1>13, <2>3, <3>1, <3>2 DEF InForce
  <2> QED BY <1>2, <2>1, <2>2, <2>3
<1>16. ASSUME NEW q \in Requests, pc'[q] = "insert", SharesWith(req[q].note, req[q].target)' # {}
       PROVE  <<req[q].note, req[q].target>> \in Caused'
  <2>1. CASE q = r
    BY <1>2, <1>13, <1>14, <1>16, <2>1 DEF Caused, Reply, Serve, Inv, Types, Shape, FunctionShapes
  <2>2. CASE q # r
    <3>1. pc[q] = "insert"
      BY <1>3, <1>16, <2>2 DEF StepOf, Kept
    <3>2. SharesWith(req[q].note, req[q].target) # {}
      BY <1>1, <1>9, <1>13, <1>14, <1>16 DEF SharesWith
    <3> QED BY <1>1, <1>u, <3>1, <3>2 DEF Inv, Racing, Caused
  <2> QED BY <2>1, <2>2
<1> QED BY <1>1, <1>3, <1>8, <1>9, <1>11, <1>12, <1>15, <1>16, <1>u, WriteStep

LEMMA DeleteStep ==
  ASSUME Inv, Record, NEW r \in Requests, NEW reply \in {"ok", "empty", "rejected", "unsent", "lost"},
         DeleteShares(r, reply)
  PROVE  Inv'
<1> DEFINE k == req[r]
           S == SharesWith(k.note, k.target)
<1>1. /\ pc[r] = "delete" /\ UNCHANGED <<notes, clock, unique, local, req, alone, raced, unread>>
      /\ clock \in Nat /\ shares \subseteq Rows
  BY DEF DeleteShares, Inv, Types, Shape
<1>2. \/ Reply(r, "bad_gateway") /\ shares' \in {shares, shares \ S}
      \/ Reply(r, "ok") /\ shares' = shares \ S
  BY DEF DeleteShares, Effective, Removed
<1>3. /\ StepOf(r) /\ UNCHANGED <<owned, found>>
      /\ pc'[r] \in {"insert", "done"} /\ served'[r] \in {served[r], {}}
  BY <1>1, <1>2, WriteFrame
<1>4. k.kind = "remove"
  BY <1>1 DEF Inv, Types, Stage
<1>5. shares' \subseteq shares /\ shares' \subseteq Rows'
  BY <1>1, <1>2 DEF Rows
<1>6. ASSUME NEW n, NEW t, n # k.note \/ t # k.target
      PROVE  {s \in shares' : s.note = n /\ s.target = t} = SharesWith(n, t)
  BY <1>2, <1>6 DEF SharesWith
<1>7. /\ unique => \A s, o \in shares' : s.note = o.note /\ s.target = o.target => s = o
      /\ \A s, o \in shares' : s # o /\ s.note = o.note /\ s.target = o.target =>
            <<s.note, s.target>> \in Caused'
  BY <1>1, <1>5 DEF Inv, Types, Shape, Racing, Caused
<1>8. pc'[r] = "done" /\ (answer'[r] = "ok" => shares' = shares \ S)
  BY <1>2 DEF Reply, Serve, Inv, Types, Shape, FunctionShapes
<1>9. InForce(r)'
  BY <1>1, <1>4, <1>8 DEF InForce, SharesWith
<1>10. ASSUME NEW q \in Requests, pc'[q] = "insert", SharesWith(req[q].note, req[q].target)' # {}
       PROVE  <<req[q].note, req[q].target>> \in Caused'
  <2>1. q # r /\ pc[q] = "insert"
    BY <1>3, <1>8, <1>10 DEF StepOf, Kept
  <2>2. SharesWith(req[q].note, req[q].target) # {}
    BY <1>1, <1>5, <1>10 DEF SharesWith
  <2> QED BY <1>1, <2>1, <2>2 DEF Inv, Racing, Caused
<1> QED BY <1>1, <1>3, <1>5, <1>6, <1>7, <1>9, <1>10, WriteStep

LEMMA InsertStep ==
  ASSUME Inv, Record, NEW r \in Requests, NEW reply \in {"ok", "empty", "rejected", "unsent", "lost"},
         InsertShare(r, reply)
  PROVE  Inv'
<1> DEFINE k == req[r]
           S == SharesWith(k.note, k.target)
           z == [note |-> k.note, target |-> k.target, permission |-> k.permission, at |-> clock + 1]
<1>1. /\ pc[r] = "insert" /\ UNCHANGED <<notes, unique, local, req, alone, raced, unread>>
      /\ clock \in Nat /\ shares \subseteq Rows
  BY DEF InsertShare, Inv, Types, Shape
<1>2. /\ \/ clock' = clock + 1 /\ shares' = shares \cup {z} /\ ~(unique /\ S # {})
         \/ /\ clock' = clock /\ shares' = shares
            /\ reply # "ok" \/ (unique /\ S # {})
      /\ \E a \in {"conflict", "write_failed", "bad_gateway", "ok"} :
            /\ Reply(r, a)
            /\ a = "ok" => reply = "ok" /\ ~(unique /\ S # {})
  <2>1. Effective("ok") /\ AnswerOf(reply) \in {"write_failed", "bad_gateway"}
    BY DEF Effective, Succeeded, AnswerOf
  <2>2. reply = "ok" => Effective(reply) /\ Succeeded(reply)
    BY DEF Effective, Succeeded
  <2> QED BY <2>1, <2>2 DEF InsertShare
<1>3. clock' \in Nat /\ clock <= clock'
  BY <1>1, <1>2
<1>4. /\ StepOf(r) /\ UNCHANGED <<owned, found>>
      /\ pc'[r] \in {"insert", "done"} /\ served'[r] \in {served[r], {}}
      /\ k.note \in Notes /\ k.target \in Targets /\ Writes(k)
  <2>1. \E a : a # "none" /\ Reply(r, a)
    BY <1>2
  <2> QED BY <1>1, <1>3, <2>1, WriteFrame
<1>5. k.permission \in Permissions /\ k.kind = "upsert" /\ Active(r)
  BY <1>1 DEF Inv, Types, Stage, Active, BadPayload
<1>6. z \in Rows' \/ shares' = shares
  BY <1>1, <1>2, <1>4, <1>5 DEF Rows
<1>7. shares' \subseteq Rows'
  <2>1. Rows \subseteq Rows'
    BY <1>1, <1>3 DEF Rows
  <2> QED BY <1>1, <1>2, <1>6, <2>1
<1>8. ASSUME NEW n, NEW t, n # k.note \/ t # k.target
      PROVE  {s \in shares' : s.note = n /\ s.target = t} = SharesWith(n, t)
  BY <1>2, <1>8 DEF SharesWith
<1>9. S # {} => <<k.note, k.target>> \in Caused
  BY <1>1 DEF Inv, Racing
<1>10. unique => \A s, o \in shares' : s.note = o.note /\ s.target = o.target => s = o
  <2> SUFFICES ASSUME unique, NEW s \in shares', NEW o \in shares', s.note = o.note, s.target = o.target
               PROVE  s = o
    OBVIOUS
  <2>1. CASE shares' = shares
    BY <2>1 DEF Inv, Types, Shape
  <2>2. CASE shares' = shares \cup {z} /\ S = {}
    <3>1. \A x \in shares : ~(x.note = k.note /\ x.target = k.target)
      BY <2>2 DEF SharesWith
    <3> QED BY <2>2, <3>1 DEF Inv, Types, Shape
  <2> QED BY <1>2, <2>1, <2>2
<1>11. ASSUME NEW s \in shares', NEW o \in shares', s # o, s.note = o.note, s.target = o.target
       PROVE  <<s.note, s.target>> \in Caused'
  <2>1. CASE s \in shares /\ o \in shares
    BY <1>1, <1>11, <2>1 DEF Inv, Racing, Caused
  <2>2. CASE s = z /\ o \in shares
    BY <1>1, <1>9, <1>11, <2>2 DEF SharesWith, Caused
  <2>3. CASE o = z /\ s \in shares
    BY <1>1, <1>9, <1>11, <2>3 DEF SharesWith, Caused
  <2> QED BY <1>2, <1>11, <2>1, <2>2, <2>3
<1>12. pc'[r] = "done" /\ (answer'[r] = "ok" => shares' = shares \cup {z})
  BY <1>2 DEF Reply, Serve, Inv, Types, Shape, FunctionShapes
<1>13. ASSUME alone[r] PROVE InForce(r)'
  <2>1. \A s \in S : s.permission = k.permission
    BY <1>1, <1>4, <1>13 DEF Inv, Solo, InForce
  <2>2. ASSUME answer'[r] = "ok" PROVE {s.permission : s \in SharesWith(k.note, k.target)'} = {k.permission}
    <3>1. SharesWith(k.note, k.target)' = {s \in shares' : s.note = k.note /\ s.target = k.target}
      BY <1>1 DEF SharesWith
    <3>2. SharesWith(k.note, k.target)' = S \cup {z}
      BY <1>12, <2>2, <3>1 DEF SharesWith
    <3>3. z.permission = k.permission
      OBVIOUS
    <3> HIDE DEF S, z
    <3> QED BY <2>1, <3>2, <3>3
  <2> QED BY <1>1, <1>5, <1>12, <2>2 DEF InForce
<1>14. ASSUME NEW q \in Requests, pc'[q] = "insert", SharesWith(req[q].note, req[q].target)' # {}
       PROVE  <<req[q].note, req[q].target>> \in Caused'
  <2>1. q # r /\ pc[q] = "insert"
    BY <1>4, <1>12, <1>14 DEF StepOf, Kept
  <2>2. CASE SharesWith(req[q].note, req[q].target) # {}
    BY <1>1, <2>1, <2>2 DEF Inv, Racing, Caused
  <2>3. CASE SharesWith(req[q].note, req[q].target) = {}
    <3>1. req[q].note = k.note /\ req[q].target = k.target
      BY <1>1, <1>8, <1>14, <2>3 DEF SharesWith
    <3>2. Active(q) /\ req[q].kind = "upsert"
      BY <2>1 DEF Active, Inv, Types, Stage
    <3>3. SameShare(req[q], k)
      BY <1>5, <3>1, <3>2 DEF SameShare, Writes
    <3> QED BY <1>1, <1>5, <2>1, <3>2, <3>3 DEF Inv, Racing, Caused
  <2> QED BY <2>2, <2>3
<1> QED BY <1>1, <1>3, <1>4, <1>7, <1>8, <1>10, <1>11, <1>13, <1>14, WriteStep

-----------------------------------------------------------------------------
\* The application changes a note: no request moves.
LEMMA ChangeStep ==
  ASSUME Inv, Record, NEW n \in Notes, NEW row \in NoteRows \cup {NoNote}, ChangeNote(n, row)
  PROVE  Inv'
<1>1. /\ UNCHANGED <<shares, clock, unique, pc, req, owned, found, answer, served, alone, raced, unread>>
      /\ notes' = [notes EXCEPT ![n] = row]
  BY DEF ChangeNote, local
<1>2. Types'
  BY <1>1 DEF Inv, Types, Shape, FunctionShapes, Stage, Active, Rows
<1>3. Granted'
  <2>1. \A q \in Requests : Kept(q)
    BY <1>1 DEF Kept
  <2> QED BY <2>1, OthersGranted DEF Inv, Granted
<1>4. Solo'
  BY <1>1, SMTT(30) DEF Inv, Solo, InForce, SharesWith, SameShare, Writes, Active
<1>5. Racing'
  BY <1>1, SMTT(30) DEF Inv, Racing, Caused, SharesWith, SameShare, Writes, Active
<1> QED BY <1>2, <1>3, <1>4, <1>5 DEF Inv

LEMMA StutterStep ==
  ASSUME Inv, UNCHANGED vars
  PROVE  Inv'
<1>1. UNCHANGED <<shares, clock, unique, pc, req, owned, found, answer, served, alone, raced, unread,
                  notes, conferred>>
  BY DEF vars
<1>2. Types'
  BY <1>1 DEF Inv, Types, Shape, FunctionShapes, Stage, Active, Rows
<1>3. Granted'
  BY <1>1 DEF Inv, Granted, Read, Active, Grants
<1>4. Solo'
  BY <1>1, SMTT(30) DEF Inv, Solo, InForce, SharesWith, SameShare, Writes, Active
<1>5. Racing'
  BY <1>1, SMTT(30) DEF Inv, Racing, Caused, SharesWith, SameShare, Writes, Active
<1> QED BY <1>2, <1>3, <1>4, <1>5 DEF Inv

LEMMA StepInv == Inv /\ [Next]_vars => Inv'
<1> SUFFICES ASSUME Inv, [Next]_vars PROVE Inv'
  OBVIOUS
<1>1. CASE UNCHANGED vars
  BY <1>1, StutterStep
<1>2. CASE Next
  <2>1. Record
    BY <1>2 DEF Next
  <2>2. ASSUME NEW r \in Requests, NEW k \in Kinds, Submit(r, k) PROVE Inv'
    BY <2>1, <2>2, SubmitStep
  <2>3. ASSUME NEW r \in Requests, NEW body \in {"rows", "empty"},
               \/ OwnByUser(r, body) \/ OwnByEmail(r, body) \/ SharedByUser(r, body) \/ SharedByEmail(r, body) \/ ByIds(r, body)
        PROVE  Inv'
    BY <2>1, <2>3, OwnByUserStep, SharedStep, ByIdsStep
  <2>4. ASSUME NEW r \in Requests, NEW body \in {"rows", "empty"},
               ReadNote(r, body) \/ RoleByUser(r, body) \/ RoleByEmail(r, body)
        PROVE  Inv'
    BY <2>1, <2>4, ReadNoteStep, RoleStep
  <2>5. ASSUME NEW r \in Requests, ReadShares(r) \/ QueryFails(r) \/ Disconnect(r) PROVE Inv'
    BY <2>1, <2>5, QueryFailsStep
  <2>6. ASSUME NEW r \in Requests, NEW reply \in {"ok", "empty", "rejected", "unsent", "lost"},
               PatchShare(r, reply) \/ InsertShare(r, reply) \/ DeleteShares(r, reply)
        PROVE  Inv'
    BY <2>1, <2>6, PatchStep, InsertStep, DeleteStep
  <2>7. ASSUME NEW n \in Notes, NEW row \in NoteRows \cup {NoNote}, ChangeNote(n, row) PROVE Inv'
    BY <2>1, <2>7, ChangeStep
  <2> QED BY <1>2, <2>2, <2>3, <2>4, <2>5, <2>6, <2>7 DEF Next
<1> QED BY <1>1, <1>2

LEMMA InvHolds == Spec => []Inv
  BY InitInv, StepInv, PTL DEF Spec

-----------------------------------------------------------------------------
(* The properties. *)

\* Every read a request has made is of rows of the tables, only a request
\* with a target reaches a write, and a table that refuses a second share of
\* a note with a target never holds one.
THEOREM NoteTypes == Spec => []TypeOK
<1>1. Inv => TypeOK
  <2> SUFFICES ASSUME Inv PROVE TypeOK
    OBVIOUS
  <2>1. \A s \in shares : /\ s.note \in Notes /\ s.target \in Targets
                          /\ s.permission \in Permissions /\ s.at \in 1..clock
    BY DEF Inv, Types, Shape, Rows
  <2>2. ASSUME NEW r \in Requests
        PROVE  /\ found[r] # {} => req[r].actor \in Users
               /\ pc[r] \in {"patch", "insert", "delete"} => req[r].target \in Targets
               /\ \A x \in owned[r] : x.note \in Notes /\ x.row \in NoteRows
    <3>1. Stage(r)
      BY DEF Inv, Types
    <3>2. ASSUME pc[r] \in {"patch", "insert", "delete"} PROVE req[r].target \in Targets
      <4>1. req[r] \in Kinds /\ ~BadPayload(req[r]) /\ req[r].kind \in {"upsert", "remove"}
        BY <3>1, <3>2 DEF Stage, Active
      <4> QED BY <4>1, KindsTyped DEF BadPayload, Writes
    <3> QED BY <3>1, <3>2 DEF Stage
  <2> QED BY <2>1, <2>2 DEF TypeOK, Inv, Types, Shape
<1> QED BY <1>1, InvHolds, PTL

\* list_notes and get_note_by_id only serve a note in a role the data plane
\* granted the caller's scope (its user id, and the address of the principal
\* or else of the request's headers) while the request ran, and upsert, remove
\* and list of shares only go on for a scope that owned the note meanwhile.
THEOREM OnlyGrantedServed == Spec => []ServedWasGranted
<1>1. Inv => ServedWasGranted
  BY DEF Inv, Granted, Read, ServedWasGranted, OwnerPhases
<1> QED BY <1>1, InvHolds, PTL

\* The newest of all a caller's shares of a note gives the role that the
\* newest by id and the newest by address give.
LEMMA RoleOfUnion ==
  ASSUME clock \in Nat, NEW A, A \subseteq Rows, NEW B, B \subseteq Rows
  PROVE  RoleFrom(A \cup B) = RoleFrom(Newest(A) \cup Newest(B))
<1>1. Newest(A) \subseteq A /\ Newest(B) \subseteq B
  BY DEF Newest
<1>2. CASE A \cup B = {}
  <2>1. Newest(A) \cup Newest(B) = A \cup B
    BY <1>1, <1>2
  <2> QED BY <2>1
<1>3. CASE A \cup B # {}
  <2>1. Newest(A) \cup Newest(B) # {}
    BY <1>3, NewestOfRows
  <2>2. NewestOf(A \cup B) = NewestOf(Newest(A) \cup Newest(B))
    BY NewestOfUnion DEF NewestOf
  <2> QED BY <1>3, <2>1, <2>2 DEF RoleFrom
<1> QED BY <1>2, <1>3

\* The list of notes and the reading of one give the same role to a caller,
\* with any shares in the table, for addresses stored in lower case.
THEOREM ListAndReadAgree == Spec => []ResolversAgree
<1>1. Inv => ResolversAgree
  <2> SUFFICES ASSUME Inv, NEW u \in Users, NEW n \in Notes, NEW e \in ScopeEmails(u), notes[n] # NoNote,
                      notes[n].email # NoEmail => Lower[notes[n].email] = notes[n].email
               PROVE  ListedAs(u, e, n) = ResolvedRole(u, e, n)
    BY DEF ResolversAgree
  <2> DEFINE A == SharesWith(n, u)
             B == SharesWith(n, e)
             S == {s \in shares : s.note = n /\ s.target \in {u, e}}
  <2>1. CASE Owns(u, e, notes[n])
    <3>1. notes[n].user = u \/ notes[n].email = e
      BY <2>1 DEF Owns
    <3> QED BY <2>1, <3>1 DEF ListedAs, ResolvedRole, ListedRole
  <2>2. CASE ~Owns(u, e, notes[n])
    <3>1. S = A \cup B /\ A \subseteq Rows /\ B \subseteq Rows /\ clock \in Nat
      BY DEF SharesWith, Inv, Types, Shape
    <3>2. RoleFrom(S) = RoleFrom(Newest(A) \cup Newest(B))
      <4> HIDE DEF A, B, S
      <4> QED BY <3>1, RoleOfUnion
    <3>3. ListedAs(u, e, n) = RoleFrom(S)
      BY <2>2 DEF ListedAs, ListedRole, RoleFrom
    <3> QED BY <2>2, <3>2, <3>3 DEF ResolvedRole
  <2> QED BY <2>1, <2>2
<1> QED BY <1>1, InvHolds, PTL

\* A share written, or taken back, with the answer ok, which no other write
\* of it overlapped or followed, is in force.
THEOREM LoneWritesInForce == Spec => []WriteInForce
<1>1. Inv => WriteInForce
  BY DEF Inv, Solo, InForce, WriteInForce, Writes
<1> QED BY <1>1, InvHolds, PTL

\* Two shares of a note with one target only come from two upserts at once
\* or from a PATCH of existing shares whose answer had no body, and only where
\* the table allows it: the PATCH before the INSERT keeps every other retry
\* from duplicating a share.
THEOREM DuplicatesHaveCause == Spec => []DuplicatesNeedCause
<1>1. Inv => DuplicatesNeedCause
  BY DEF Inv, Types, Shape, Racing, Caused, DuplicatesNeedCause
<1> QED BY <1>1, InvHolds, PTL
=============================================================================
