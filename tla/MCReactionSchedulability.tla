---------------------- MODULE MCReactionSchedulability ----------------------
(***************************************************************************)
(* Two jobs, and a writer and a quota that serve them, over four units of  *)
(* time.                                                                   *)
(***************************************************************************)
EXTENDS ReactionSchedulability

Demand(id, service, units, window) ==
  [resource |-> id, service |-> service, units |-> units,
   offset |-> <<0, 0>>, window |-> window]

Job(release, deadline, demands) ==
  [release |-> release, deadline |-> deadline, demands |-> demands]

\* A deployment that leaves the writer free for a time, one that the deadline
\* cuts short, and one in two parts; a rollback at a known time, one that needs
\* the quota too, and one whose release is known to within two units.
SomeJobs ==
  [deploy   |-> {Job(<<0, 0>>, 4, {Demand("writer", 2, 0, <<0, 3>>)}),
                 Job(<<0, 0>>, 2, {Demand("writer", 3, 0, <<0, 4>>)}),
                 Job(<<0, 0>>, 4, {Demand("quota", 1, 1, <<0, 1>>),
                                   Demand("quota", 0, 1, <<3, 4>>)})},
   rollback |-> {Job(<<1, 1>>, 4, {Demand("writer", 1, 1, <<0, 2>>)}),
                 Job(<<1, 1>>, 3, {Demand("writer", 2, 0, <<0, 2>>),
                                   Demand("quota", 1, 1, <<0, 3>>)}),
                 Job(<<0, 2>>, 4, {Demand("writer", 2, 0, <<0, 1>>)})}]

Resource(kind, capacity, concurrency, window, available, opaque, bound) ==
  [kind |-> kind, capacity |-> capacity, concurrency |-> concurrency, rate |-> 1,
   window |-> window, available |-> available, opaque |-> opaque, bound |-> bound]

SomeResources ==
  [writer |-> {Resource("KERNEL_WRITER", 2, 2, 1, <<0, 4>>, FALSE, None),
               Resource("CAPACITY_WINDOW", 2, 1, 1, <<1, 4>>, TRUE, 1)},
   quota  |-> {Resource("RATE_LIMIT", 2, 2, 2, <<0, 4>>, TRUE, 1),
               Resource("RATE_LIMIT", 2, 2, 1, <<0, 3>>, TRUE, None)}]
=============================================================================
