---------------------------- MODULE MCTuiSession ----------------------------
(* Small instances of TuiSession, one per kind of page: two commands sent   *)
(* from the risk page, by process and by port, and one from the others,     *)
(* while an account, a strategy or an order arrives in front of a row.      *)
EXTENDS TuiSession, TLC

Order(id, order) == [id |-> id, words |-> {id}, account |-> "main", order |-> order, symbol |-> "MU"]
Strategy(id, state) == [id |-> id, words |-> {id, state}]
Event(screen, row) ==
  [event_id |-> << "news", row.id >>, screen |-> screen, row |-> row,
   summary |-> [id |-> row.id, words |-> {row.id}, more_words |-> {"payload"}, chain |-> row.id,
                strategy |-> row.id]]

SomeRowIds == << "a1", "global", "main", "s1", "s2", "o1", "o2" >>
AccountNews == {Event("Risk", [id |-> "a1"])}
StrategyNews == {Event("Strategies", Strategy("s1", "active")), Event("Strategies", Strategy("s2", "active"))}
OrderNews == {Event("Orders", Order("o1", None)), Event("Orders", Order("o2", "o2"))}
KillGlobal == Payload("AccountKillSwitchRequested", "global", None, None)

Live == [replay |-> FALSE, tcp |-> TRUE, shared |-> FALSE, accounts |-> {"main"}, pages |-> {"Risk"}, queries |-> {},
         palette |-> {}, news |-> AccountNews, commands |-> 2]
SomeSessions ==
  {[Live EXCEPT !.pages = {}, !.palette = {KillGlobal}, !.news = {}],
   [Live EXCEPT !.pages = {}, !.palette = {KillGlobal}, !.news = {}, !.commands = 1,
                !.tcp = FALSE, !.shared = TRUE],
   [Live EXCEPT !.commands = 1],
   [Live EXCEPT !.pages = {"Strategies"}, !.news = StrategyNews, !.queries = {"active"}, !.commands = 1],
   [Live EXCEPT !.pages = {"Events"}, !.news = OrderNews, !.commands = 1],
   [Live EXCEPT !.replay = TRUE, !.palette = {KillGlobal}]}
EventSessions == {[Live EXCEPT !.pages = {"Events"}, !.news = OrderNews, !.queries = {"payload"}]}
=============================================================================
