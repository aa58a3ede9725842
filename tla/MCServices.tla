---------------------------- MODULE MCServices ----------------------------
(* The workloads that Services is checked under. *)
EXTENDS Services

Opt(inf, pipe, bad) == [head |-> FALSE, inf |-> inf, pipe |-> pipe, bad |-> bad]

Create(n, o) == GSProcessCreate(<<100 + n>>, o)
Head1 == [Opt(FALSE, FALSE, FALSE) EXCEPT !.head = TRUE]

Plain == Opt(FALSE, FALSE, FALSE)
Group(n, items, pmi) == GSGroupCreate(n, items, pmi, Plain)

\* What only the first client asks for.
First(by, ms) == IF by = 1 THEN ms ELSE {}

MCMenu(w, by) ==
    CASE w = "process" ->
           {Create(0, Plain), Create(1, Opt(FALSE, FALSE, TRUE)), GSProcessKill(3)}
           \cup {GSProcessJoin(3, m) : m \in Modes}
      [] w = "lists" ->
           First(by, {Create(n, Plain) : n \in {0, 1}})
           \cup {GSProcessJoinList(<<3, 4>>, a, b, "forever") :
                    a \in BOOLEAN, b \in BOOLEAN}
           \cup {GSProcessJoinList(<<3, 4>>, TRUE, FALSE, "timed")}
      [] w = "stdio" ->
           {Create(0, Opt(TRUE, TRUE, FALSE)), GSChannelQuery(2, TRUE),
            GSChannelDestroy(2, TRUE), GSChannelDestroy(1, FALSE)}
      [] w = "channel" ->
           {GSChannelCreate("x", 0, TRUE), GSChannelQuery(1, TRUE),
            GSChannelDestroy(1, TRUE)}
           \cup {GSChannelJoin("x", m) : m \in {"timed", "forever"}}
      [] w = "pool" ->
           {GSPoolCreate("x"), GSPoolDestroy(1),
            GSChannelCreate("x", 1, FALSE), GSChannelDestroy(1, FALSE)}
      [] w = "heads" ->
           First(by, {Create(1, [Head1 EXCEPT !.bad = TRUE])})
           \cup {Create(0, Head1), GSProcessKill(3)}
      [] w = "group" ->
           First(by, {Group("x", <<2>>, FALSE), GSProcessKill(3)})
           \cup {GSGroupKill(1), GSProcessJoin(3, "forever")}
      [] w = "grow" ->
           First(by, {Group("x", <<1>>, FALSE)})
           \cup {GSGroupCreateAddTo(1, <<1>>, Plain), GSGroupKill(1)}
      [] w = "pmi" /\ by = 1 ->
           {Group("x", <<1>>, TRUE), Group("y", <<1>>, TRUE), Group("z", <<2>>, TRUE), GSGroupDestroy(1)}
      [] w = "remove" ->
           First(by, {Group("x", <<2>>, FALSE), Group("x", <<1, 1>>, FALSE)})
           \cup {GSGroupRemoveFrom(1, <<3>>), GSGroupRemoveFrom(1, <<3, 4>>),
            GSGroupDestroyRemoveFrom(1, <<3>>), GSGroupAddTo(1, <<2>>)}
      [] w = "destroy" ->
           {Group("x", <<2>>, FALSE),
            GSGroupDestroy(1), GSProcessJoin(3, "forever")}
      [] w = "local" ->
           {LSCreateProcessLocalChannel(0, 0), LSDestroyProcessLocalChannel(0, MaxLocalCuid, 0)}
      [] OTHER -> {}

MCQuota(w) == IF w \in {"local", "pmi", "channel", "pool"} THEN 4 ELSE 3

MCMortal(w) ==
    CASE w = "heads" -> {1, 3} [] w = "local" -> {2} [] w \in {"channel", "pool", "pmi"} -> {}
      [] w \in {"group", "remove", "destroy"} -> {3}
      [] OTHER -> Puids \ Clients
=============================================================================
