------------------------- MODULE ConsoleTableKinds -------------------------
(***************************************************************************)
(* The paged tables of the web console, one record each, in three parts.   *)
(*  load    page     "answer": an answer sets the page number; "search":   *)
(*                   only the answer of a search does; "click": none does  *)
(*          counts   a load that a later one has superseded is ignored     *)
(*          split    a search has a function and a flag of its own         *)
(*          catches  the flags a failed request leaves cleared             *)
(*          empties  a failed request leaves no rows                       *)
(*  paging  early    the click sets the page number                        *)
(*          asks     what a page click asks for when a keyword is typed:   *)
(*                   "page" of the search, its "first" page, or, with the  *)
(*                   keyword forgotten, the page of the whole list: "drop" *)
(*          home     the table is reloaded at the active page ("none"), or *)
(*                   at its first one ("ask"), which is then the active    *)
(*                   one at once ("set")                                   *)
(*          typed    typing a keyword searches for it                      *)
(*  rows    writes   what a successful operation on a row does: "snapshot" *)
(*                   puts back the rows of the click, with the new status, *)
(*                   "update" changes the rows shown, "none" neither       *)
(*          reloads  the table is loaded again after a change of status    *)
(*          covers   the table shows that it is loading meanwhile          *)
(*          catches  a failed operation leaves loading cleared             *)
(***************************************************************************)
Load(page, counts, split, catches) ==
    [page |-> page, counts |-> counts, split |-> split, catches |-> catches,
     empties |-> FALSE]

Paging(early, asks) == [early |-> early, asks |-> asks, home |-> "none", typed |-> FALSE]

Rows(writes, reloads, covers, catches) ==
    [writes |-> writes, reloads |-> reloads, covers |-> covers,
     catches |-> catches]

Table(load, paging, rows) == [load |-> load, paging |-> paging, rows |-> rows]

(* hooks/channels/useChannelsData.jsx *)
loadChannels == Load("search", TRUE, TRUE, {"searching"})
pageChannels == Paging(TRUE, "page")
manageChannel == Rows("snapshot", FALSE, FALSE, TRUE)

(* hooks/tokens/useTokensData.jsx, components/table/tokens *)
loadTokens == Load("answer", FALSE, TRUE, {})
pageTokens == Paging(FALSE, "drop")
manageToken == Rows("snapshot", TRUE, TRUE, FALSE)

(* hooks/users/useUsersData.jsx *)
loadUsers == Load("answer", FALSE, TRUE, {})
pageUsers == Paging(TRUE, "page")
manageUser == Rows("snapshot", FALSE, TRUE, FALSE)

(* hooks/redemptions/useRedemptionsData.jsx *)
loadRedemptions == Load("answer", FALSE, TRUE, {"loading", "searching"})
pageRedemptions == Paging(TRUE, "first")
manageRedemption == Rows("snapshot", FALSE, TRUE, TRUE)

(* hooks/models/useModelsData.jsx *)
loadModels ==
    [Load("answer", FALSE, TRUE, {"loading", "searching"}) EXCEPT !.empties = TRUE]
pageModels == Paging(TRUE, "drop")
manageModel == Rows("update", FALSE, FALSE, TRUE)

(* hooks/mj-logs, hooks/task-logs, hooks/usage-logs: nothing to manage     *)
loadMjLogs == Load("answer", FALSE, FALSE, {})
loadTaskLogs == Load("answer", FALSE, FALSE, {})
loadUsageLogs == Load("answer", FALSE, FALSE, {})
pageMjLogs == [Paging(FALSE, "page") EXCEPT !.home = "ask"]
pageTaskLogs == [Paging(FALSE, "page") EXCEPT !.home = "ask"]
pageUsageLogs == [Paging(TRUE, "page") EXCEPT !.home = "set"]

(* pages/Setting/Operation/ContractManagement.jsx *)
loadContracts == Load("click", FALSE, FALSE, {"loading"})
pageContracts == Paging(TRUE, "page")
handleDelete == Rows("none", TRUE, FALSE, TRUE)

(* components/topup/modals/TopupHistoryModal.jsx *)
loadTopups == Load("click", FALSE, FALSE, {"loading"})
pageTopups == [Paging(TRUE, "page") EXCEPT !.typed = TRUE]
handleAdminComplete == Rows("none", TRUE, FALSE, TRUE)

ReadOnly == Rows("none", FALSE, FALSE, TRUE)

Tables ==
    {Table(loadChannels, pageChannels, manageChannel),
     Table(loadTokens, pageTokens, manageToken),
     Table(loadUsers, pageUsers, manageUser),
     Table(loadRedemptions, pageRedemptions, manageRedemption),
     Table(loadModels, pageModels, manageModel),
     Table(loadMjLogs, pageMjLogs, ReadOnly),
     Table(loadTaskLogs, pageTaskLogs, ReadOnly),
     Table(loadUsageLogs, pageUsageLogs, ReadOnly),
     Table(loadContracts, pageContracts, handleDelete),
     Table(loadTopups, pageTopups, handleAdminComplete)}
=============================================================================
