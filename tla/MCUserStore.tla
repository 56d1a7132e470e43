---------------------------- MODULE MCUserStore ----------------------------
(* Small instances of UserStore for TLC. *)
EXTENDS UserStore, TLC

CONSTANTS r1, r2, r3, u1, u2, u3, u4, u5, a, b, secret, guess

Named(email, username) == [email |-> email, username |-> username]
Account(email, username, password) ==
    [names |-> Named(email, username), password |-> password, deleted |-> FALSE]

Posting(email, username) ==
    [kind |-> "create", names |-> Named(email, username), password |-> None]
Registering(email, username) ==
    [kind |-> "register", names |-> Named(email, username), password |-> secret]
Patching(i, email, username) ==
    [kind |-> "update", id |-> i, patch |-> Named(email, username)]
Deleting(i) == [kind |-> "delete", id |-> i]
LoggingIn(username, password) ==
    [kind |-> "login", username |-> username, password |-> password]

Padded(table) == [i \in UserIds |-> IF i \in DOMAIN table THEN table[i] ELSE Absent]

\* One account with a password beside one without; the first one deleted.
TwoLive == (u1 :> Account(a, a, secret)) @@ (u2 :> Account(b, b, None))
OneDeleted == u1 :> Deleted(Account(a, a, secret))
MCSeeds == {Padded(TwoLive), Padded(OneDeleted)}

\* The names cross: emails and usernames collide in one index and not in the
\* other, and two users swap their usernames.
AllOps ==
    { Posting(a, b), Registering(b, a), Registering(b, b),
      Patching(u1, UNSET, b), Patching(u2, UNSET, a), Patching(u2, NULL, b),
      Patching(u1, UNSET, UNSET), Deleting(u1), Deleting(u2),
      LoggingIn(a, secret), LoggingIn(b, guess) }

Interchangeable == Permutations(Requests) \cup Permutations({u3, u4, u5})
============================================================================
