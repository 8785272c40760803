------------------------------ MODULE MCReplan ------------------------------
EXTENDS Replan, Workshop

Down(c, a, b)   == [kind |-> "POST_DOWN", on |-> c, from |-> a, to |-> b]
Absent(w, a, b) == [kind |-> "CREW_ABSENT", on |-> w, from |-> a, to |-> b]
Delay(s, t)     == [kind |-> "PART_DELAY", on |-> s, at |-> t]
Overrun(o, d)   == [kind |-> "DURATION_OVERRUN", on |-> o, minutes |-> d]
Urgent          == [kind |-> "URGENT_JOB", ops |-> {4}]
Freed(o)        == [kind |-> "RELEASE", ops |-> {o}]
Inspection(o)   == [kind |-> "INSPECTION", ops |-> {4},
                    rewire |-> [q \in {o} |-> {Link(4, 0, NoMax)}]]

Clean(S) == {p \in S : OneLane(p) /\ ReadsAllThatBinds(p)}

AllEvents ==
  {Down(1, 0, 1), Down(1, 0, Minutes), Down(1, 2, 4), Absent(1, 1, 2), Absent(1, 3, 5), Delay(1, 4), Urgent,
   Overrun(1, 3), Freed(1), Freed(2), Freed(3), Inspection(2), Inspection(3)}

NoWindow   == {Unprotected}
SomeWindow == {Unprotected, 4}

\* The third visit may be tied to the first post, and set up after the second.
WithPosts(S) == S \cup {[p EXCEPT !.posts[3] = {1}] : p \in S}

\* The second visit is frozen, without a crew, and the first is elsewhere.
UncrewedShops ==
  Valid({Freeze([Plain EXCEPT !.posts[1] = {2}], 2, NoCrew, s, 1) : s \in 1..2})

\* Every kind of event, on posts with one lane.
EventShops == UncrewedShops \cup Clean(WithTools(WithBreaks(WithLinks(WithPosts({Plain})))))

\* A few shops with a short day, for liveness.
FewEvents == {Down(1, 0, 1), Absent(1, 1, 2), Delay(1, 3), Urgent, Overrun(1, 3), Freed(2), Freed(3), Inspection(3)}
FewShops  == Clean({[p EXCEPT !.horizon = 5] : p \in WithLinks({Plain})})

-----------------------------------------------------------------------------
(***************************************************************************)
(* Shops in which the freeze goes wrong.                                   *)
(***************************************************************************)
\* Visit 2 follows visit 1 on the other post, and visit 3 is set up after it.
SuccessorShops ==
  {[Plain EXCEPT !.links[2] = {Link(1, 0, NoMax)}, !.floor[3] = f,
                 !.posts = <<{1}, {2}, {2}, {1}>>] : f \in 4..5}

\* The first post keeps running when nobody is there.
UnattendedShops == {[Plain EXCEPT !.unattended = {PostCal(1)}]}
=============================================================================
