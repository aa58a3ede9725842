-------------------------------- MODULE MCDDict --------------------------------
(* Small dictionaries for TLC. *)
EXTENDS DDict

Op(op)       == [op |-> op, k |-> -1, x |-> 0, p |-> FALSE]
OnKey(op, k) == [op |-> op, k |-> k, x |-> 0, p |-> FALSE]
PPut(k)      == [op |-> "put", k |-> k, x |-> 0, p |-> TRUE]
Start(p)     == [op |-> "start", k |-> -1, x |-> 0, p |-> p]
RestoreTo(x) == [op |-> "restore", k |-> -1, x |-> x, p |-> FALSE]

MCKey == {0, 1}
MCClient == {1, 2}

Both(ops) == [c \in MCClient |-> ops]
Each(a, b) == [c \in MCClient |-> IF c = 1 THEN a ELSE b]

\* One manager and a working set of two checkpoints, without waiting.
Plain ==
    [managers |-> 1, size |-> 2, wait |-> FALSE, writers |-> FALSE, cap |-> 9, freq |-> 0, count |-> -1,
     maxx |-> 2, up |-> TRUE, bad |-> {}, home |-> Both(0),
     ops |-> Each({OnKey("put", 0), OnKey("pop", 0), Op("checkpoint"), Op("clear")},
                  {OnKey("put", 0), OnKey("get", 0), Op("checkpoint")}),
     left |-> Each(4, 3)]

\* The listings, with what they raise.
List ==
    [Plain EXCEPT !.ops = Each({OnKey("put", 0), OnKey("pop", 0), Op("checkpoint")},
                               {Op("keys"), Op("values"), Op("items"), Op("len"), OnKey("contains", 0),
                                Op("newest"), Op("rollback")}),
                  !.left = Each(5, 2)]

\* wait_for_keys and wait_for_writers.
Wait ==
    [Plain EXCEPT !.wait = TRUE, !.writers = TRUE,
                  !.ops = Each({OnKey("put", 0), PPut(1), Op("checkpoint"), OnKey("pop", 1)},
                               {OnKey("bput", 0), OnKey("get", 0), OnKey("get", 1), Op("checkpoint")}),
                  !.left = Each(4, 3)]

\* A batch beside single puts, with one checkpoint at a time.
Batch ==
    [Plain EXCEPT !.wait = TRUE, !.size = 1,
                  !.ops = Each({Start(FALSE), OnKey("put", 0), Op("end"), Op("checkpoint")},
                               {OnKey("put", 0), OnKey("get", 0), Op("checkpoint"), Op("sync")}),
                  !.left = Each(4, 2)]

\* Two managers: the tree, connections, broadcast puts.
Tree ==
    [Plain EXCEPT !.managers = 2, !.home = Each(0, 1), !.maxx = 1,
                  !.ops = Each({Start(FALSE), OnKey("put", 1), OnKey("bput", 0), Op("end")},
                               {OnKey("bget", 0), Op("freeze")}),
                  !.left = Each(4, 1)]

\* Persisting, restoring, freezing.
Persist ==
    [Plain EXCEPT !.size = 1, !.freq = 1, !.count = 2, !.maxx = 3,
                  !.ops = Each({OnKey("put", 0), Op("checkpoint"), Op("persist"), RestoreTo(0), RestoreTo(1)},
                               {Op("freeze"), Op("unfreeze"), Op("advance"), Op("ids"), OnKey("pop", 0)}),
                  !.left = Each(4, 2)]

\* A pool with room for two values.
Small ==
    [Batch EXCEPT !.cap = 2, !.wait = FALSE, !.freq = 1,
                  !.ops = Each({Start(FALSE), OnKey("put", 0), Op("end"), Op("checkpoint")},
                               {OnKey("put", 1), Op("sync"), Op("checkpoint")}),
                  !.left = Each(5, 2)]

\* From creation to destruction.
Life ==
    [Plain EXCEPT !.managers = 3, !.up = FALSE, !.bad = {1}, !.home = Each(0, -1), !.size = 1,
                  !.ops = Each({OnKey("put", 1), Op("detach"), Op("destroy")}, {OnKey("put", 1), Op("len"), Op("clear"), Op("stats"), Op("frozen"), Op("destroy")}),
                  !.left = Both(2)]

MCUses == {Plain, List, Wait, Batch, Tree, Persist, Small, Life}
================================================================================
