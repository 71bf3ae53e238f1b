----------------------------- MODULE MCServices -----------------------------
(* Model checking of Services: what is published to analytics and to the   *)
(* notification service.  Verdicts and trades are named so that the verdict*)
(* is YES.                                                                 *)
EXTENDS Services

CONSTANTS u1, u2, m1, m2

Trade(u, m, o) == [user |-> u, market |-> m, outcome |-> o]

(* Two traders in two markets; one trader in two markets; both sides. *)
MCPublished ==
  {[sent |-> s, verdict |-> [m \in {m1, m2} |-> "YES"]] :
     s \in {<<Trade(u1, m1, "NO"),  Trade(u2, m2, "YES")>>,
            <<Trade(u1, m1, "YES"), Trade(u1, m2, "NO")>>,
            <<Trade(u1, m1, "YES"), Trade(u1, m1, "NO")>>}}

(* Two messages of a kind, to two users, and one of a kind the feed takes. *)
MCHappenings ==
  {<<"WITHDRAWAL_FAILED", u1, 1>>, <<"WITHDRAWAL_FAILED", u2, 2>>, <<"MARKET_SETTLED", u1, 3>>}
=============================================================================
