--------------------------- MODULE MCListPlanner ---------------------------
EXTENDS SlotScan, Workshop

Clean(S) == {p \in S : ReadsAllThatBinds(p)}

\* Frozen rows, between breaks of a calendar and across precedence.
FrozenShops ==
  Clean(WithFrozen(WithStates(WithTools(WithBreaks(WithLinks({Plain}))))))

\* Shared tools, preemptive visits, releases, a crew without the skill and an
\* unattended post.
ResourceShops == Clean(WithCrews(WithTools(WithBounds(WithWork(WithUnattended(WithBreaks(WithLinks({Plain}))))))))

\* The rows of a plan keep apart whatever the shop is: two lanes, a permit that
\* runs out, a frozen visit whose setup may meet its predecessor elsewhere.
OddShops == Valid(WithFrozen(WithTools(WithLinks(
  {[Plain EXCEPT !.posts[1] = {2}, !.cap = k, !.permit[3][1] = 3] : k \in {<<1, 1>>, <<2, 1>>}}))))

\* The last visit can go between two of a lane.
TwoLaneShops ==
  {[Plain EXCEPT !.cap = <<2, 1>>, !.ops = Visits, !.posts = [o \in Visits |-> {1}],
                 !.dur = <<1, 2, 1, 2>>, !.state = k, !.floor = <<0, 0, f, 2>>] :
     k \in {<<"a", "b", "a", "a">>, <<"a", "a", "a", "a">>}, f \in 3..5}

\* There is no cell from a to b, and it counts as zero.
ZeroShops ==
  Clean(WithFrozen(WithStates(WithLinks(
    {[Plain EXCEPT !.missing = "zero", !.setup[1] = [@ EXCEPT !["a"]["b"] = NoCell]]}))))

Shops == FrozenShops \cup ZeroShops \cup ResourceShops \cup OddShops \cup TwoLaneShops

\* The cursor has the tries it needs where every post has one lane.
ASSUME \A p \in Shops : /\ Scannable(p)
                        /\ (\A c \in DOMAIN p.cap : p.cap[c] = 1) => TriesSuffice(p)
=============================================================================
