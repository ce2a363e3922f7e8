---------------------------- MODULE MCWalletCache ----------------------------
(***************************************************************************)
(* Instances of WalletCache for TLC.  All actors at once are too many:     *)
(* each behaviour has a cast, chosen at the start, of those who take part. *)
(***************************************************************************)
EXTENDS WalletCache, TLC

CONSTANTS c1, c2, t1, t2, t3, d1, d2, a1

NoAmount == [a \in {} |-> 0]

\* One adjustment takes more than the opening balance.
Take == a1 :> -3

\* Calls, top-ups of one credit, and disputes are interchangeable.
Interchangeable == Permutations(Calls) \cup Permutations(Topups) \cup Permutations(Disputes)

VARIABLE cast

\* How many calls, top-ups, disputes and adjustments take part; the first is the
\* cast of the race.
Casts == {<<0, 2, 0, 0>>, <<2, 2, 0, 0>>, <<1, 3, 0, 0>>, <<2, 1, 0, 1>>,
          <<1, 2, 0, 1>>, <<1, 2, 1, 0>>, <<1, 1, 2, 0>>, <<1, 1, 1, 1>>}

CastInit ==
    /\ Init
    /\ cast \in {S \in SUBSET (Calls \cup Topups \cup Disputes \cup Adjustments) :
                    <<Cardinality(S \cap Calls), Cardinality(S \cap Topups),
                      Cardinality(S \cap Disputes), Cardinality(S \cap Adjustments)>> \in Casts}

CastNext ==
    /\ \/ \E c \in Calls \cap cast : Call(c)
       \/ \E t \in Topups \cap cast : Topup(t)
       \/ \E d \in Disputes \cap cast : Dispute(d)
       \/ \E a \in Adjustments \cap cast : Adjust(a)
       \/ Expire \/ Flush
    /\ UNCHANGED cast

CastSpec == CastInit /\ [][CastNext]_<<vars, cast>>
=============================================================================
