-------------------------- MODULE WhitelistService --------------------------
(***************************************************************************)
(* What the agent promises of the whitelist: a claim, an addition or a     *)
(* removal takes effect at once, on the whitelist as it is, whatever the   *)
(* reads, writes, locks and restarts it is made of.  A request that has    *)
(* taken effect may go unanswered.                                         *)
(***************************************************************************)
CONSTANTS
  Names,       \* users
  Nobody,      \* there is no primary admin
  EnvPrimary,  \* the primary admin the environment provides, or Nobody
  EnvAdmins    \* the admins it provides

VARIABLES
  primary,  \* the primary admin
  role,     \* the role of each user; "none": not on the list
  claimed,  \* users who were told that their claim succeeded
  acked     \* users whose addition was acknowledged and who were not removed since

service == <<primary, role, claimed, acked>>

OnList(n) == role[n] # "none"

ServiceInit ==
  /\ primary = Nobody
  /\ role = [n \in Names |-> "none"]
  /\ claimed = {}
  /\ acked = {}

\* A list without a primary admin is completed from the environment.
Seed ==
  /\ primary = Nobody /\ EnvPrimary # Nobody
  /\ primary' = EnvPrimary
  /\ role' = [n \in Names |-> IF n \in EnvAdmins /\ ~OnList(n) THEN "admin" ELSE role[n]]
  /\ UNCHANGED <<claimed, acked>>

\* The role of the primary admin goes to one who asks for it while nobody has it.
Claim(n) ==
  /\ primary = Nobody
  /\ primary' = n
  /\ role' = [role EXCEPT ![n] = "admin"]
  /\ claimed' \in {claimed, claimed \cup {n}}
  /\ UNCHANGED acked

Add(n, given) ==
  /\ ~OnList(n)
  /\ role' = [role EXCEPT ![n] = given]
  /\ acked' \in {acked, acked \cup {n}}
  /\ UNCHANGED <<primary, claimed>>

Confirm(n) ==
  /\ OnList(n)
  /\ acked' = acked \cup {n}
  /\ UNCHANGED <<primary, role, claimed>>

\* A primary admin who goes is succeeded by another admin, and stays without one.
Remove(n, heir) ==
  /\ IF primary = n THEN heir \in Names \ {n} /\ role[heir] = "admin" ELSE heir = primary
  /\ primary' = heir
  /\ role' = [role EXCEPT ![n] = "none"]
  /\ acked' = acked \ {n}
  /\ UNCHANGED claimed

ServiceNext ==
  \/ Seed
  \/ \E n \in Names : Claim(n) \/ Confirm(n)
  \/ \E n \in Names, given \in {"member", "admin"} : Add(n, given)
  \/ \E n \in Names, heir \in Names \cup {Nobody} : Remove(n, heir)

ServiceSpec == ServiceInit /\ [][ServiceNext]_service
=============================================================================
