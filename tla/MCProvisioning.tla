---------------------------- MODULE MCProvisioning ----------------------------
(***************************************************************************)
(* Small instances of Provisioning for TLC: two organisations with         *)
(* buildings, addresses in two spellings, and the requests that meet in    *)
(* each scenario, which is chosen at the start and kept:                   *)
(*   spellings  calls for one address as it is spelt in two ways, and a    *)
(*              registration;                                              *)
(*   links      two organisations reach for one unattached account, one    *)
(*              call at a time;                                            *)
(*   managers   two managers of one building each try every grant;         *)
(*   admins     the makers of administrators overlap, and none fails;      *)
(*   opposite   calls write the same roles and grants of one user, some in *)
(*              opposite orders.                                           *)
(***************************************************************************)
EXTENDS Provisioning, TLC

CONSTANTS boss, rival, caps, low, gone, o1, o2, b1, b2, b3, h1, h2, h3

VARIABLE scenario

mcvars == <<vars, scenario>>

MCLower == [e \in Emails |-> IF e = caps THEN low ELSE e]

MCBuildingOrg == [b \in Buildings |-> IF b = b3 THEN o2 ELSE o1]

Tables(members, managed, writing) ==
  [org |-> members @@ [e \in Emails |-> NoAccount],
   inactive |-> DOMAIN members \cap {gone},
   assigned |-> managed @@ [e \in Emails |-> {}],
   writers |-> writing]

(* The tables of each scenario at first *)
First ==
  LET alone == Tables(boss :> o1, boss :> {<<b1, "MANAGER">>}, {boss})
  IN  [spellings |-> alone, admins |-> alone, opposite |-> alone,
       links |-> Tables(boss :> o1 @@ rival :> o2 @@ low :> NoOrg @@ gone :> NoOrg,
                        boss :> {<<b1, "MANAGER">>}, {boss, rival}),
       managers |-> Tables(boss :> o1 @@ low :> o1,
                           boss :> {<<b1, "MANAGER">>} @@ low :> {<<b2, "STAFF">>}, {})]

MCFirstTables == {First[k] : k \in DOMAIN First}

Request(op, actor, o, email, keys, grants) ==
  [op |-> op, actor |-> actor, org |-> o, email |-> email, roles |-> keys,
   grants |-> grants, resident |-> {}, sameOrg |-> TRUE, link |-> TRUE]

Provision(email, grants) == Request("provision", boss, o1, email, {}, grants)

(* What clients send in each scenario *)
Sent ==
  [spellings |->
     {Provision(e, <<<<b1, "STAFF">>>>) : e \in {caps, low}}
     \cup {Provision(low, <<<<b1, "STAFF">>, <<b3, "STAFF">>>>),
           [Provision(low, <<>>) EXCEPT !.link = FALSE]},
   links |->
     {[Provision(low, <<<<b1, "STAFF">>>>) EXCEPT !.sameOrg = FALSE],
      [Request("provision", rival, o2, low, {}, <<<<b3, "STAFF">>>>) EXCEPT !.sameOrg = FALSE],
      [Provision(gone, <<<<b1, "STAFF">>>>) EXCEPT !.sameOrg = FALSE],
      Request("assign", boss, o1, low, {}, <<<<b1, "MANAGER">>>>),
      Request("provision", rival, o2, low, {}, <<<<b3, "MANAGER">>>>)},
   managers |->
     {Request("provision", by[1], o1, by[2], {}, <<<<b, t>>>>) :
        by \in {<<boss, low>>, <<low, low>>, <<low, caps>>}, b \in {b1, b2}, t \in Types}
     \cup {Request("provision", boss, o1, low, {"admin"}, <<<<b1, "STAFF">>>>)}
     \cup {[Provision(low, <<>>) EXCEPT !.resident = {b2}]},
   admins |->
     {Request("org_admin", boss, o1, low, {}, <<>>),
      Request("assign", boss, o1, low, {}, <<<<b1, "BUILDING_ADMIN">>>>),
      Provision(low, <<<<b1, "BUILDING_ADMIN">>, <<b2, "STAFF">>>>),
      Request("create", boss, o1, low, {"viewer"}, <<>>)},
   opposite |->
     {Provision(boss, <<<<b1, "STAFF">>, <<b2, "STAFF">>>>),
      Provision(boss, <<<<b2, "STAFF">>, <<b1, "STAFF">>>>),
      Request("provision", boss, o1, boss, {"viewer"},
              <<<<b1, "BUILDING_ADMIN">>, <<b2, "STAFF">>>>),
      Request("provision", boss, o1, boss, {"admin"},
              <<<<b1, "BUILDING_ADMIN">>>>)}]

MCRequests == UNION {Sent[k] : k \in DOMAIN Sent}

ASSUME ScenariosAreSound ==
  /\ LowerCaseElsewhere /\ FirstTablesAreSound
  /\ \A k \in DOMAIN Sent \ {"links"} : \A r \in Sent[k] : r.sameOrg
  /\ \A k \in DOMAIN Sent \ {"admins"} : \A r \in Sent[k] : ~InTwoSteps(r)

OneAtATime == \A g, h \in Calls : {pc[g], pc[h]} \subseteq InFlight => g = h

(* Calls are interchangeable: they are begun in one order. *)
InOrder == /\ pc[h2] # "new" => pc[h1] # "new"
           /\ pc[h3] # "new" => pc[h2] # "new"

MCInit == Init /\ scenario \in DOMAIN Sent /\ first = First[scenario]

Meet ==
  /\ Next
  /\ UNCHANGED scenario
  /\ InOrder'
  /\ \A h \in Calls : pc'[h] # "new" => call'[h].req \in Sent[scenario]

MCNext ==
  /\ Meet
  /\ scenario = "links" => OneAtATime'
  /\ scenario \in {"managers", "admins"} => \A h \in Calls : pc'[h] # "failed"

MCSpec == MCInit /\ [][MCNext]_mcvars

(* The organisations that reach for the unattached account may overlap.      *)
RaceSpec == MCInit /\ scenario = "links" /\ [][Meet]_mcvars
=============================================================================
