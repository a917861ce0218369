----------------------------- MODULE ToolsBoard -----------------------------
(***************************************************************************)
(* What the tools of a card promise to those who read them.                *)
(*                                                                         *)
(* Messengers are sent to the server of a card, one transport in mind.     *)
(* What one hears there it hears in one moment, and it is true then: a     *)
(* list, in a transport the server speaks, or the way the server has with  *)
(* some transport that is not answered by a list.  Later it dates its news *)
(* and posts them in one step, or loses them.  A list replaces list, date  *)
(* and error; a reason replaces the error only.  Messengers do not wait    *)
(* for each other between dating and posting, so a list may replace one    *)
(* that was dated later.  The card's transport is corrected by whoever got *)
(* a list in another than it had in mind, and by nobody else but the       *)
(* owner.  There are no attempts here, no fallback, no slots to wait for.  *)
(***************************************************************************)
EXTENDS Naturals

CONSTANTS Refreshes, Transports, Tools, Endpoints, None

VARIABLES
    server,     \* to each transport, how the server answers it
    card,       \* has it an address, and which transport is it said to speak?
    today,      \* the date
    row,        \* list, date and error shown, or None
    news        \* where each messenger is, and what it knows

boardVars == <<server, card, today, row, news>>

(* What a user is told of an answer; of one that speaks, that it failed. *)
Reason == [timeout |-> "timeout", network |-> "unreachable", guard |-> "url_not_allowed",
           protocol |-> "protocol_error", speaks |-> "protocol_error"]

News(at, asked, found, tools, error) ==
    [at |-> at, asked |-> asked, found |-> found, tools |-> tools, error |-> error,
     date |-> 0]

Home == News("home", None, None, None, None)

Row(tools, date, error) == [tools |-> tools, fetchedAt |-> date, error |-> error]

BoardInit ==
    /\ server \in Endpoints
    /\ card \in [url : {TRUE}, transport : Transports]
    /\ today = 0
    /\ row = None
    /\ news = [r \in Refreshes |-> Home]

ServerChanges == UNCHANGED <<card, today, row, news>> /\ server' \in Endpoints

OwnerEdits ==
    /\ UNCHANGED <<server, today, row, news>>
    /\ card' \in {c \in [url : BOOLEAN, transport : Transports \cup {None}] :
                    c.transport # None => c.url}

Turns(r, n) == news' = [news EXCEPT ![r] = n]

Send(r) ==
    /\ news[r].at = "home"
    /\ UNCHANGED <<server, card, today, row>>
    /\ card.url /\ card.transport # None
    /\ Turns(r, News("out", card.transport, None, None, None))

Hear(r) ==
    /\ news[r].at = "out"
    /\ UNCHANGED <<server, card, today, row>>
    /\ \E t \in Transports :
         \/ /\ server[t] = "speaks"
            /\ \E tools \in Tools : Turns(r, News("back", news[r].asked, t, tools, None))
         \/ Turns(r, News("back", news[r].asked, None, None, Reason[server[t]]))

Date(r) ==
    /\ news[r].at = "back"
    /\ UNCHANGED <<server, card, row>>
    /\ today' = today + 1
    /\ Turns(r, [news[r] EXCEPT !.at = "posting", !.date = today'])

PublishList(r) ==
    /\ news[r].at = "posting" /\ news[r].tools # None
    /\ UNCHANGED <<server, today>>
    /\ row' = Row(news[r].tools, news[r].date, None)
    /\ IF news[r].found = news[r].asked THEN UNCHANGED card
       ELSE card.url /\ card' = [url |-> TRUE, transport |-> news[r].found]
    /\ Turns(r, Home)

PublishError(r) ==
    /\ news[r].at = "posting" /\ news[r].tools = None
    /\ UNCHANGED <<server, card, today>>
    /\ row' = IF row = None THEN Row(None, 0, news[r].error)
              ELSE Row(row.tools, row.fetchedAt, news[r].error)
    /\ Turns(r, Home)

Lose(r) ==
    /\ news[r].at \in {"back", "posting"}
    /\ UNCHANGED <<server, card, today, row>>
    /\ Turns(r, Home)

BoardNext ==
    \/ ServerChanges
    \/ OwnerEdits
    \/ \E r \in Refreshes :
         Send(r) \/ Hear(r) \/ Date(r) \/ PublishList(r) \/ PublishError(r) \/ Lose(r)

BoardSpec == BoardInit /\ [][BoardNext]_boardVars
=============================================================================
