------------------------------ MODULE MCServices ------------------------------
(***************************************************************************)
(* Instances of Services for TLC.                                          *)
(***************************************************************************)
EXTENDS Services

CONSTANTS r1, r2, r3, old, source, key, x, y

Symmetry == Permutations(Requests)

Raised(status) ==
  [NewAlert(source) EXCEPT !.id = old, !.status = status, !.occurrence_count = 1]

MCInitialRows ==
  [alerts |-> {NoRows} \cup {old :> Raised(s) : s \in {"open", "resolved"}},
   notifications |-> {old :> [NewNotification("email", key) EXCEPT !.id = old]},
   incidents |-> {old :> [NewIncident("medium") EXCEPT !.id = old]},
   directory |-> {NoRows,
     old :> [id |-> old, kind |-> "user", name |-> x, merchant |-> Second(old)]
       @@ Second(old) :> [id |-> Second(old), kind |-> "merchant", name |-> x]},
   connections |-> {NoRows, old :> [NewAccount(old) EXCEPT !.id = old]},
   bank_accounts |-> {old :> [id |-> old, kind |-> "bank_account", status |-> "active",
                              verification_status |-> "unverified"]}]
==============================================================================
