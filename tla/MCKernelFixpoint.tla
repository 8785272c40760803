-------------------------- MODULE MCKernelFixpoint --------------------------
EXTENDS KernelFixpoint

Card(preds, job, post, dur, lag, strategy) ==
  [ops |-> 1..4, preds |-> preds, job |-> job, post |-> post, dur |-> dur,
   lag |-> lag, horizon |-> 4, strategy |-> strategy]

NoLag == <<0, 0, 0, 0>>

\* A unit is taken apart, two branches are repaired, and it is put together.
Diamond == <<{}, {1}, {1}, {2, 3}>>

OneJob  == <<1, 1, 1, 1>>
TwoJobs == <<1, 1, 2, 2>>

Short == <<1, 1, 1, 1>>

\* The branches share a post or not; two jobs wait for each other or it is one;
\* the last operation must wait a minute.
SplitCards ==
  {Card(Diamond, OneJob,  <<1, 1, 2, 1>>, Short, NoLag, "split_release_fixpoint"),
   Card(Diamond, TwoJobs, <<1, 2, 2, 1>>, Short, NoLag, "split_release_fixpoint"),
   Card(Diamond, OneJob,  <<1, 2, 1, 2>>, Short, <<0, 0, 0, 1>>, "split_release_fixpoint")}

\* Branches of different jobs lose nothing when each job is one chain.
SerialCards ==
  {Card(Diamond, <<1, 1, 2, 1>>, <<1, 1, 2, 1>>, Short, NoLag, "serialize"),
   Card(<<{}, {1}, {}, {3}>>, TwoJobs, <<1, 2, 2, 1>>, Short, NoLag, "serialize")}

SomeCards == SplitCards \cup SerialCards

=============================================================================
