----------------------------- MODULE Credentials -----------------------------
(***************************************************************************)
(* The SIAT credentials of one point of sale: its CUIS, kept in its row,    *)
(* and its CUFDs, rows of cufd_history.  Requests, emissions and the        *)
(* scheduler obtain them beside edits and the deletion of the point of sale *)
(* (usecase/credentials.go, siat_credentials.go, maintenance.go,            *)
(* point_of_sale_usecase.go).  Codes are numbered as the SIAT issues them,  *)
(* 0 is none; a code ages from fresh to due (inside the renewal lead) and a *)
(* CUFD to expired.  Identities, ambient and messages are left out.         *)
(***************************************************************************)
EXTENDS Naturals

CONSTANTS Callers,
          Scheduler,           \* the one that runs RunCredentialRenewal, alone
          Editing,             \* whether points of sale are edited and deleted
          MaxCuis, MaxCufd,    \* bounds on the codes the SIAT issues
          MaxFaults

CredentialsAssumption ==
    MaxCuis \in Nat /\ MaxCufd \in Nat /\ MaxFaults \in Nat /\ Editing \in BOOLEAN

VARIABLES pos,     \* the row: is_active and its CUIS
          cufds,   \* cufds[code]: stored, active and age
          siat,    \* the SIAT's side: the CUIS in force and its age, CUFDs issued
          call,    \* call[c]: operation, place, copy of the row, results
          faults

crvars == <<pos, cufds, siat, call, faults>>

Ops == {"cuis", "cufd", "ensure", "renew", "setup", "edit", "delete"}
NoCall == [op |-> "none", pc |-> "idle", cuis |-> 0, active |-> FALSE,
           looked |-> FALSE, renewed |-> FALSE, again |-> FALSE, got |-> 0]
NoCufd == [stored |-> FALSE, active |-> FALSE, age |-> "fresh"]

Init ==
    /\ pos = [active |-> TRUE, cuis |-> 0]
    /\ cufds = [k \in 1..MaxCufd |-> NoCufd]
    /\ siat = [cuis |-> 0, age |-> "fresh", cufd |-> 0]
    /\ call = [c \in Callers |-> NoCall]
    /\ faults = 0

At(c, pc) == call[c].pc = pc
Return(c) == call' = [call EXCEPT ![c] = [NoCall EXCEPT !.got = call[c].got]]

\* CuisNeedsRenewal: no code, or one that is (or was replaced when it was) due.
NoCuisYet(cuis) == cuis = 0
CuisNeedsRenewal(cuis) == cuis = 0 \/ cuis # siat.cuis \/ siat.age = "due"

ActiveRows == {k \in DOMAIN cufds : cufds[k].active}
\* GetActiveByPos, and the same test on its result.
AnyActive(k) == cufds[k].active
Usable(k) == cufds[k].active /\ cufds[k].age # "expired"

-----------------------------------------------------------------------------
(* Where an operation starts and where it goes on after the CUIS is saved. *)

Start(op, cuis) ==
    CASE op \in {"edit", "delete"} -> "save"
      [] op = "cuis"   -> "cuis"
      [] op = "cufd"   -> IF CuisNeedsRenewal(cuis) THEN "cuis" ELSE "cufd"
      [] op = "ensure" -> "look"
      [] op = "renew"  -> IF CuisNeedsRenewal(cuis) THEN "cuis" ELSE "look"
      [] op = "setup"  -> IF cuis = 0 THEN "cuis" ELSE "look"

Begin(c, op) ==
    /\ At(c, "idle") /\ pos.active
    /\ op = "renew" <=> c = Scheduler
    /\ op \in {"edit", "delete"} => Editing
    /\ call' = [call EXCEPT ![c] =
                  [NoCall EXCEPT !.op = op, !.pc = Start(op, pos.cuis),
                                 !.cuis = pos.cuis, !.active = TRUE,
                                 !.renewed = op = "renew" /\ CuisNeedsRenewal(pos.cuis)]]
    /\ UNCHANGED <<pos, cufds, siat, faults>>

\* EnsureCufd: the stored CUFD if it is in force, unless the scheduler finds it
\* due or has just renewed the CUIS; else a new one, after EnsureCuis.
Look(c) ==
    LET usable == {k \in DOMAIN cufds : Usable(k)}
        replace == call[c].op = "renew" /\
                   (call[c].renewed \/ \A k \in usable : cufds[k].age # "fresh")
        ask == IF CuisNeedsRenewal(call[c].cuis) THEN "cuis" ELSE "cufd"
    IN
    /\ At(c, "look")
    /\ IF usable # {} /\ ~replace
       THEN \E k \in usable : call' = [call EXCEPT ![c] = [NoCall EXCEPT !.got = k]]
       ELSE call' = [call EXCEPT ![c].pc = ask, ![c].looked = TRUE,
                                 ![c].again = usable # {}]
    /\ UNCHANGED <<pos, cufds, siat, faults>>

-----------------------------------------------------------------------------
(* The SIAT: it repeats a CUIS in force (message 980) and issues a new one    *)
(* only for one that is due; every CUFD it issues is new.                     *)

RequestCuis(c) ==
    /\ At(c, "cuis")
    /\ \E code \in {siat.cuis, siat.cuis + 1} :
          /\ code \in 1..MaxCuis
          /\ code # siat.cuis => siat.cuis = 0 \/ siat.age = "due"
          /\ siat' = [siat EXCEPT !.cuis = code,
                                  !.age = IF code = siat.cuis THEN @ ELSE "fresh"]
          /\ call' = [call EXCEPT ![c].cuis = code, ![c].pc = "save"]
    /\ UNCHANGED <<pos, cufds, faults>>

RequestCufd(c) ==
    /\ At(c, "cufd")
    /\ call[c].cuis = siat.cuis
    /\ siat.cufd < MaxCufd
    /\ siat' = [siat EXCEPT !.cufd = @ + 1]
    /\ call' = [call EXCEPT ![c].got = siat.cufd + 1, ![c].pc = "store"]
    /\ UNCHANGED <<pos, cufds, faults>>

\* It refuses a CUIS that is no longer in force; or the call fails.
Refused(c) ==
    /\ At(c, "cufd") /\ (call[c].cuis # siat.cuis \/ siat.cufd = MaxCufd)
    /\ call' = [call EXCEPT ![c] = NoCall]
    /\ UNCHANGED <<pos, cufds, siat, faults>>

-----------------------------------------------------------------------------
(* The database. *)

AfterSave(c) ==
    CASE call[c].op \in {"cuis", "edit"} -> "idle"
      [] call[c].op = "cufd" \/ call[c].looked -> "cufd"
      [] OTHER -> "look"

\* posRepo.Update writes every column of the copy that was read before.
SavePos(c) ==
    /\ At(c, "save") /\ call[c].op # "delete"
    /\ pos' = [active |-> call[c].active, cuis |-> call[c].cuis]
    /\ IF AfterSave(c) = "idle"
       THEN call' = [call EXCEPT ![c] = NoCall]
       ELSE call' = [call EXCEPT ![c].pc = AfterSave(c)]
    /\ UNCHANGED <<cufds, siat, faults>>

DeletePos(c) ==
    /\ At(c, "save") /\ call[c].op = "delete"
    /\ pos' = [pos EXCEPT !.active = FALSE]
    /\ call' = [call EXCEPT ![c] = NoCall]
    /\ UNCHANGED <<cufds, siat, faults>>

\* Create, one transaction under the point of sale's lock: the others are
\* deactivated and the new row is the active one.
WithNewRow(k) == [cufds EXCEPT ![k].stored = TRUE, ![k].active = TRUE]
WithOneActive(k) ==
    [j \in DOMAIN cufds |-> [cufds[j] EXCEPT !.stored = @ \/ j = k, !.active = j = k]]

\* A scheduler that has renewed the CUIS replaces the CUFD it has just ensured.
StoreCufd(c) ==
    LET again == call[c].op = "renew" /\ call[c].renewed /\ ~call[c].again IN
    /\ At(c, "store")
    /\ cufds' = WithOneActive(call[c].got)
    /\ IF again THEN call' = [call EXCEPT ![c].pc = "cufd", ![c].again = TRUE]
                ELSE Return(c)
    /\ UNCHANGED <<pos, siat, faults>>

\* A call to the SIAT or the database fails, or the process dies.
Fail(c) ==
    /\ ~At(c, "idle") /\ faults < MaxFaults
    /\ faults' = faults + 1
    /\ call' = [call EXCEPT ![c] = NoCall]
    /\ UNCHANGED <<pos, cufds, siat>>

-----------------------------------------------------------------------------
(* Time. *)

AgeCuis ==
    /\ siat.cuis # 0 /\ siat.cuis < MaxCuis /\ siat.age = "fresh"
    /\ siat' = [siat EXCEPT !.age = "due"]
    /\ UNCHANGED <<pos, cufds, call, faults>>

AgeCufd(k) ==
    /\ k <= siat.cufd /\ cufds[k].stored /\ cufds[k].age # "expired"
    /\ cufds' = [cufds EXCEPT ![k].age = IF @ = "fresh" THEN "due" ELSE "expired"]
    /\ UNCHANGED <<pos, siat, call, faults>>

-----------------------------------------------------------------------------
Step(c) == Look(c) \/ RequestCuis(c) \/ RequestCufd(c) \/ Refused(c)
           \/ SavePos(c) \/ DeletePos(c) \/ StoreCufd(c)

Next ==
    \/ \E c \in Callers : (\E op \in Ops : Begin(c, op)) \/ Step(c) \/ Fail(c)
    \/ AgeCuis \/ \E k \in 1..MaxCufd : AgeCufd(k)

Spec == Init /\ [][Next]_crvars

-----------------------------------------------------------------------------
TypeOK ==
    /\ pos \in [active : BOOLEAN, cuis : 0..MaxCuis]
    /\ cufds \in [1..MaxCufd -> [stored : BOOLEAN, active : BOOLEAN,
                                 age : {"fresh", "due", "expired"}]]
    /\ siat \in [cuis : 0..MaxCuis, age : {"fresh", "due"}, cufd : 0..MaxCufd]
    /\ call \in [Callers -> [op : Ops \cup {"none"},
                             pc : {"idle", "look", "cuis", "save", "cufd", "store"},
                             cuis : 0..MaxCuis, active : BOOLEAN, looked : BOOLEAN,
                             renewed : BOOLEAN, again : BOOLEAN, got : 0..MaxCufd]]
    /\ faults \in 0..MaxFaults

\* However requests and the scheduler interleave, a point of sale has one
\* active CUFD, a code the SIAT issued to it.
OneActiveCufd ==
    /\ \A j, k \in ActiveRows : j = k
    /\ \A k \in DOMAIN cufds : cufds[k].stored => k <= siat.cufd

\* EnsureCufd hands out a stored CUFD in force, never an expired one or one
\* that was not persisted.
EnsuredIsUsable ==
    [][\A c \in DOMAIN call :
          call'[c].pc = "idle" /\ call'[c].got # 0 /\ call'[c] # call[c]
              => LET k == call'[c].got
                 IN cufds'[k].stored /\ cufds'[k].active /\ cufds'[k].age # "expired"]_crvars

\* The scheduler brings an active point of sale back to a CUFD in force, as
\* long as the SIAT issues codes.
CufdRecovers ==
    pos.active /\ {k \in DOMAIN cufds : Usable(k)} = {}
        ~> \/ ~pos.active \/ siat.cufd = MaxCufd
           \/ {k \in DOMAIN cufds : Usable(k)} # {}
=============================================================================
