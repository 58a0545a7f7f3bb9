--------------------------- MODULE MCVerification ---------------------------
(* Three files for two workers: more failures than workers, and a worker   *)
(* that gets a second file.  Damage of every outcome, seen and unseen.     *)
EXTENDS Verification

TheConditions ==
    {[kind |-> "plain", fault |-> "none"], [kind |-> "plain", fault |-> "wrong"],
     [kind |-> "plain", fault |-> "short"], [kind |-> "aes store", fault |-> "short"], [kind |-> "aes deflate", fault |-> "sealed"]}
TheArchives == {a \in [Files -> TheConditions] : a[2] = a[3]}

=============================================================================
