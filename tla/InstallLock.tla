----------------------------- MODULE InstallLock -----------------------------
(***************************************************************************)
(* What ADR-0035 promises of the install lock, without documents,          *)
(* revisions or requests: a lease per server that one run at a time may    *)
(* hold, that its holder may renew, and that ends by expiry, by release    *)
(* or with the server itself.                                              *)
(***************************************************************************)
EXTENDS Naturals

CONSTANTS Servers,  \* every server there may ever be
          Holders,  \* what takes a lock
          Runs,     \* the runs of a holder
          Nobody    \* no holder, no run, no expiry

VARIABLES lease,    \* the lease of each server
          present,  \* the servers that exist
          clock

lockVars == <<lease, present, clock>>

Leases ==
    [holder: Holders \cup {Nobody}, wf: Runs \cup {Nobody},
     created: Nat \cup {Nobody}, expires: Nat \cup {Nobody}]

FreeLease ==
    [holder |-> Nobody, wf |-> Nobody, created |-> Nobody, expires |-> Nobody]

Held(l) ==
    /\ l.holder # Nobody
    /\ l.expires # Nobody => clock < l.expires

LockInit ==
    /\ lease \in [Servers -> Leases]
    /\ present \subseteq Servers
    /\ \A s \in Servers \ present : lease[s] = FreeLease
    /\ clock = 0

SetLease(s, l) ==
    /\ lease' = [lease EXCEPT ![s] = l]
    /\ UNCHANGED clock

\* A run takes a lock nobody holds, or renews its own; the instant the
\* machine was first taken survives the renewal.
Take(s) ==
    LET old == lease[s]
        new == lease'[s]
    IN  /\ s \in present
        /\ new \in Leases /\ new.holder # Nobody /\ new.expires \in Nat
        /\ Held(old) => /\ new.holder = old.holder /\ new.wf = old.wf
                        /\ new.created = old.created
        /\ SetLease(s, new)
        /\ UNCHANGED present

\* A release: of a held lease, or of one that expired while it was on its way.
Drop(s) ==
    /\ s \in present /\ lease[s].holder # Nobody
    /\ SetLease(s, FreeLease)
    /\ UNCHANGED present

Vanish(s) ==
    /\ s \in present
    /\ present' = present \ {s}
    /\ SetLease(s, FreeLease)

Appear(s) ==
    /\ s \notin present
    /\ present' = present \cup {s}
    /\ SetLease(s, FreeLease)

Pass == clock' = clock + 1 /\ UNCHANGED <<lease, present>>

LockNext ==
    \/ Pass
    \/ \E s \in Servers :
          Take(s) \/ Drop(s) \/ Vanish(s) \/ Appear(s)

LockSpec == LockInit /\ [][LockNext]_lockVars
=============================================================================
