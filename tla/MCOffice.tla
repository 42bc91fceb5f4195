------------------------------ MODULE MCOffice ------------------------------
(***************************************************************************)
(* Eight parts that share no state, checked in one run; a behaviour is one  *)
(* of a single part.                                                       *)
(*   cancel      a reservation of two chunks of one recipient each, with   *)
(*               two requests to cancel it                                 *)
(*   calls       six calls in three days of two seconds, three of them in  *)
(*               one second; pages of one call, cursors of two ids         *)
(*   recordings  two listeners, and two recordings of which the cache      *)
(*               holds one at a time                                       *)
(*   notices     two tabs, two campaigns, two audit rows, two read ids     *)
(*   setUp       two operators and two users, two mishaps, credentials     *)
(*               saved three times                                         *)
(*   threads     three chats with one customer in two hours' time, sessions*)
(*               of two hours that cost one message, answers to both of    *)
(*               our numbers                                               *)
(*   numbers     two administrators, three sender numbers                  *)
(*   directory   two browsers, two contacts with one number or none, one   *)
(*               group, and a file with a number twice and a row without   *)
(*               number or address                                         *)
(***************************************************************************)
EXTENDS ReservationCancel, CallPages, RecordingCache, Notices, SetUp, Threads,
        Numbers, Directory, TLC

CONSTANTS r1, r2, q1, q2, cust, rep, bot, null, adm1, adm2, web1, web2

VARIABLE part

MCChunkOf == (r1 :> 1) @@ (r2 :> 2)
MCSecondOf == <<0, 2, 2, 2, 3, 4>>
MCBytesOf == [p \in Paths |-> IF p = "long" THEN 2 ELSE 1]

Utc(t) == [shape |-> "utc", at |-> t]
Kst(t) == [shape |-> "kst", at |-> t]
Odd == [shape |-> "odd", at |-> 0]

MCPhone == [m \in Chats |-> cust]
MCCaller == [m \in Chats |-> rep]
MCSentTimes == {Utc(0), Utc(1), Utc(2)}
MCReportTimes == {Kst(3), Utc(4)}
MCAnswers == {[phone |-> cust, caller |-> bot, time |-> Kst(5)],
              [phone |-> cust, caller |-> rep, time |-> Utc(6)],
              [phone |-> cust, caller |-> null, time |-> Odd]}

FileRow(phone, email, named) == [phone |-> phone, email |-> email, named |-> named]
MCFiles == {<<FileRow("p1", FALSE, TRUE), FileRow("p1", TRUE, TRUE),
              FileRow(NoPhone, FALSE, TRUE)>>}

MCInit ==
  /\ part \in {"cancel", "calls", "recordings", "notices", "setUp", "threads",
             "numbers", "directory"}
  /\ CancelInit /\ CallsInit /\ RecInit /\ NoticesInit /\ SetUpInit /\ ThreadsInit
  /\ NumbersInit /\ DirectoryInit
  /\ part # "threads" => \A m \in Chats : mts[m].sent = Utc(0)

MCNext ==
  /\ UNCHANGED part
  /\ \/ /\ part = "cancel" /\ CancelNext
        /\ UNCHANGED <<callsVars, recVars, noticesVars, setUpVars,
                       threadsVars, numbersVars, directoryVars>>
     \/ /\ part = "calls" /\ CallsNext
        /\ UNCHANGED <<cancelVars, recVars, noticesVars, setUpVars,
                       threadsVars, numbersVars, directoryVars>>
     \/ /\ part = "recordings" /\ RecNext
        /\ UNCHANGED <<cancelVars, callsVars, noticesVars, setUpVars,
                       threadsVars, numbersVars, directoryVars>>
     \/ /\ part = "notices" /\ NoticesNext
        /\ UNCHANGED <<cancelVars, callsVars, recVars, setUpVars,
                       threadsVars, numbersVars, directoryVars>>
     \/ /\ part = "setUp" /\ SetUpNext
        /\ UNCHANGED <<cancelVars, callsVars, recVars, noticesVars,
                       threadsVars, numbersVars, directoryVars>>
     \/ /\ part = "threads" /\ ThreadsNext
        /\ UNCHANGED <<cancelVars, callsVars, recVars, noticesVars,
                       setUpVars, numbersVars, directoryVars>>
     \/ /\ part = "numbers" /\ NumbersNext
        /\ UNCHANGED <<cancelVars, callsVars, recVars, noticesVars,
                       setUpVars, threadsVars, directoryVars>>
     \/ /\ part = "directory" /\ DirectoryNext
        /\ UNCHANGED <<cancelVars, callsVars, recVars, noticesVars,
                       setUpVars, threadsVars, numbersVars>>

MCVars == <<part, cancelVars, callsVars, recVars, noticesVars, setUpVars, threadsVars,
            numbersVars, directoryVars>>
MCSpec == MCInit /\ [][MCNext]_MCVars
=============================================================================
