-------------------------------- MODULE MCInbox --------------------------------
(***************************************************************************)
(* Inbox against what sequences of requests should come to, over bounded   *)
(* sequences.  TLC evaluates the assumptions in every run that extends     *)
(* this module.                                                            *)
(***************************************************************************)
EXTENDS Inbox

People == {"ann", "bob"}

(* Retries, second clicks and other people's clicks in any order: a card   *)
(* has the star of those who asked for it last, none lost and none twice   *)
(* (social.py:5-7, social_router.py:211-216), and each answer counts the   *)
(* stars as they are.                                                      *)
Clicks == SeqOf([card : {1, 2}, user : People, on : BOOLEAN], 4)
ASSUME LastWordCounts ==
    \A clicks \in Clicks :
      LET step(state, click) == React(state.table, click.card, click.user, click.on)
          end == FoldLeft(step, [table |-> {}, on |-> FALSE, count |-> 0], clicks)
          wanted(c, u) ==
            \E n \in DOMAIN clicks :
              /\ clicks[n] = [card |-> c, user |-> u, on |-> TRUE]
              /\ \A m \in n + 1 .. Len(clicks) : clicks[m].card # c \/ clicks[m].user # u
      IN  /\ end.table = {<<c, u>> \in {1, 2} \X People : wanted(c, u)}
          /\ clicks # <<>> =>
               end.count = Cardinality({u \in People : wanted(Last(clicks).card, u)})

(* The time a notification was read is that of the first request of its    *)
(* owner that covers it, however many tabs say so again, and nobody else's *)
(* request touches it (social.py:315-320, notifications/router.py:49-53);  *)
(* and what the requests say they changed is what went unread before.      *)
Inboxes(times) == [1 .. 3 -> [user : People, created : times, readAt : {Never}]]
ReadRequests == SeqOf([user : People, wanted : {<<>>, <<1>>, <<2>>, <<4>>}], 3)
AfterRequests(rows, requests) ==
    FoldLeftDomain(LAMBDA r, n : MarkRead(r, requests[n].user, requests[n].wanted, n), rows, requests)
ASSUME ReadOnce ==
    \A rows \in Inboxes({1}), requests \in ReadRequests :
      LET end == AfterRequests(rows, requests)
          covers(i, n) == /\ requests[i].user = rows[n].user
                          /\ requests[i].wanted \in {<<>>, <<n>>}
          before(i) == AfterRequests(rows, SubSeq(requests, 1, i - 1))
          counted == [i \in DOMAIN requests |->
                        CountRead(before(i), requests[i].user, requests[i].wanted)]
      IN  /\ \A n \in DOMAIN rows :
               end[n].readAt = Min({i \in DOMAIN requests : covers(i, n)} \cup {4}) % 4
          /\ FoldLeft(+, 0, counted) = Cardinality({n \in DOMAIN rows : end[n].readAt # Never})

(* The badge is the number of all that is unread, whatever page and filter *)
(* it came with (notifications/router.py:33-34), and the pages are the     *)
(* list, the newest first.                                                 *)
ASSUME BadgeIsWhole ==
    \A rows \in Inboxes({1, 2}), requests \in SeqOf([user : People, wanted : {<<>>, <<1>>}], 1),
       user \in People, limit \in 1 .. 2 :
      LET now == AfterRequests(rows, requests)
          answer(only, offset) == ListNotifications(now, user, only, limit, offset)
          pages(only) == answer(only, 0).items \o answer(only, limit).items
                           \o answer(only, 2 * limit).items
      IN  /\ \A only \in BOOLEAN, offset \in 0 .. 3 : answer(only, offset).unread = Len(pages(TRUE))
          /\ Range(pages(FALSE)) = {n \in DOMAIN now : now[n].user = user}
          /\ \A only \in BOOLEAN :
               LET all == pages(only)
               IN  IsInjective(all) /\ \A k \in 2 .. Len(all) :
                     rows[all[k]].created <= rows[all[k - 1]].created
=============================================================================
