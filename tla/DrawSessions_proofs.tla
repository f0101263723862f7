------------------------ MODULE DrawSessions_proofs ------------------------
(***************************************************************************)
(* Proofs about the sockets of DrawGateway: about DrawSessions, for every  *)
(* set of users and sockets and every number of crashes, and about         *)
(* RateLimiter, for every limit and window (the two limiters are the       *)
(* instances 5 events / 5000 ms and 120 events / 1000 ms).                 *)
(*                                                                         *)
(* The former follow from one inductive invariant, RegistryInv.            *)
(* Its core is the relation between the mapping in Redis and the handshake *)
(* that is about to replace it: from the HGET on, a handshake that is      *)
(* alone holds the only live socket of the user in its reply               *)
(* (AloneKnowsSession), so the disconnectSockets it sends leaves none      *)
(* (AloneReplaces), and its HSET may take the mapping over.                *)
(***************************************************************************)
EXTENDS DrawSessions, RateLimiter, TLAPS

\* handleDisconnect(s) got past its early return.
Cleaning(s) == disc[s] \in {"reading", "clearing", "deleting", "done"}

\* A handshake in progress is the only one of an undisturbed user.
OneRegistration ==
    \A s, t \in Sockets :
        (Owner[s] = Owner[t] /\ Undisturbed(Owner[s])
            /\ InRegistration(s) /\ InRegistration(t)) => s = t

\* What the HGET of the only handshake returned is the user's session.
AloneKnowsSession ==
    \A s, t \in Sockets :
        (Owner[s] = Owner[t] /\ Undisturbed(Owner[s])
            /\ conn[t] = "registering" /\ Mapped(s) /\ Live(s)) => reply[t] = s

\* Once that handshake has sent disconnectSockets no other session is live.
AloneReplaces ==
    \A s, t \in Sockets :
        (Owner[s] = Owner[t] /\ Undisturbed(Owner[s])
            /\ conn[t] = "writing" /\ Mapped(s)) => ~Live(s)

\* The local map holds sockets whose handshake has entered them, and a
\* handshake starts when its socket opens.
MapHoldsRegistered ==
    /\ \A s \in socketToUser : Registered(s)
    /\ \A s \in Sockets : link[s] = "idle" => conn[s] = "none"

\* A socket that is being cleaned up is closed, gone from the local map, and
\* its handshake has nothing left to write once the HGET was served.
CleaningIsFinal ==
    \A s \in Sockets :
        /\ Cleaning(s) => /\ link[s] = "closed"
                          /\ Registered(s)
                          /\ s \notin socketToUser
        /\ disc[s] \in {"clearing", "deleting", "done"} => conn[s] = "done"

\* The mapping cannot come back to a socket whose HGET found another one.
NotMappedAgain ==
    \A s \in Sockets :
        (disc[s] = "clearing" /\ reply[s] # s) => userSocket[Owner[s]] # s

RegistryInv ==
    /\ TypeOK
    /\ OneRegistration
    /\ AloneKnowsSession
    /\ AloneReplaces
    /\ SessionRoutable
    /\ MapHoldsRegistered
    /\ CleaningIsFinal
    /\ NotMappedAgain
    /\ NoLeftover

-----------------------------------------------------------------------------
LEMMA InitType == Init => TypeOK
  BY SessionsAssumption
     DEF Init, TypeOK, LinkStates, ConnStates, DiscStates, MaybeSocket

LEMMA TypeStep == TypeOK /\ [Next]_vars => TypeOK'
<1> SUFFICES ASSUME TypeOK, [Next]_vars PROVE TypeOK'
    OBVIOUS
<1> USE SessionsAssumption
    DEF TypeOK, LinkStates, ConnStates, DiscStates, MaybeSocket, SocketsOf
<1>1. CASE UNCHANGED vars
    BY <1>1 DEF vars, handlers, redis, history
<1>2. ASSUME NEW s \in Sockets, Connect(s) PROVE TypeOK'
    BY <1>2 DEF Connect, redis, history
<1>3. ASSUME NEW s \in Sockets, Reject(s) PROVE TypeOK'
    BY <1>3 DEF Reject, CloseTransport, redis, history
<1>4. ASSUME NEW s \in Sockets, Accept(s) PROVE TypeOK'
    BY <1>4 DEF Accept, redis, history
<1>5. ASSUME NEW s \in Sockets, ReadPrevious(s) PROVE TypeOK'
    BY <1>5 DEF ReadPrevious, redis
<1>6. ASSUME NEW s \in Sockets, Register(s) PROVE TypeOK'
    BY <1>6 DEF Register, redis, history
<1>7. ASSUME NEW s \in Sockets, WriteMapping(s) PROVE TypeOK'
    BY <1>7 DEF WriteMapping, history
<1>8. ASSUME NEW s \in Sockets, WriteKeys(s) PROVE TypeOK'
    BY <1>8 DEF WriteKeys, history
<1>9. ASSUME NEW s \in Sockets, ReadCurrent(s) PROVE TypeOK'
    BY <1>9 DEF ReadCurrent, redis, history
<1>10. ASSUME NEW s \in Sockets, ClearMapping(s) PROVE TypeOK'
    BY <1>10 DEF ClearMapping
<1>11. ASSUME NEW s \in Sockets, DeleteKeys(s) PROVE TypeOK'
    BY <1>11 DEF DeleteKeys, history
<1>12. ASSUME NEW s \in Sockets, Close(s) PROVE TypeOK'
    BY <1>12 DEF Close, CloseTransport, redis, history
<1>13. ASSUME NEW s \in Sockets, Kick(s) PROVE TypeOK'
    BY <1>13 DEF Kick, CloseTransport, redis, history
<1>14. ASSUME NEW s \in Sockets, Crash(s) PROVE TypeOK'
    BY <1>14 DEF Crash, redis, history
<1>15. CASE Sweep
  <2>1. CASE SweepList
      BY <2>1 DEF SweepList, handlers, redis, history
  <2>2. CASE SweepSnapshot
      BY <2>2 DEF SweepSnapshot, handlers, redis, history
  <2>3. CASE SweepEntry
      BY <2>3 DEF SweepEntry, handlers, history
  <2>4. CASE SweepEnd
      BY <2>4 DEF SweepEnd, handlers, redis, history
  <2> QED BY <1>15, <2>1, <2>2, <2>3, <2>4 DEF Sweep
<1> QED
    BY <1>1, <1>2, <1>3, <1>4, <1>5, <1>6, <1>7, <1>8, <1>9, <1>10, <1>11,
       <1>12, <1>13, <1>14, <1>15
    DEF Next, Continue

\* Every reachable state is well typed, whatever the users and the sockets.
THEOREM TypeCorrect == Spec => []TypeOK
<1>1. Init => TypeOK
    BY InitType
<1>2. TypeOK /\ [Next]_vars => TypeOK'
    BY TypeStep
<1> QED BY <1>1, <1>2, PTL DEF Spec

-----------------------------------------------------------------------------
LEMMA InitRegistry == Init => RegistryInv
  BY InitType
     DEF Init, RegistryInv, OneRegistration, AloneKnowsSession, AloneReplaces,
         SessionRoutable, MapHoldsRegistered, CleaningIsFinal, NotMappedAgain, NoLeftover,
         InRegistration, Registered, Mapped, Live, Cleaning

LEMMA RegistryStep == RegistryInv /\ [Next]_vars => RegistryInv'
<1> SUFFICES ASSUME RegistryInv, [Next]_vars PROVE RegistryInv'
    OBVIOUS
<1>0. TypeOK'
    BY TypeStep DEF RegistryInv
<1> USE SessionsAssumption, <1>0
    DEF RegistryInv, TypeOK, InRegistration, Registered, Mapped, Live, Cleaning, Undisturbed,
        MaybeSocket, SocketsOf
<1>1. CASE UNCHANGED vars
    BY <1>1 DEF vars, handlers, redis, history, OneRegistration, AloneKnowsSession, AloneReplaces,
         SessionRoutable, MapHoldsRegistered, CleaningIsFinal, NotMappedAgain, NoLeftover
<1>2. ASSUME NEW s \in Sockets, Connect(s) PROVE RegistryInv'
  <2>1. OneRegistration'
    BY <1>2 DEF Connect, history, OneRegistration
  <2>2. AloneKnowsSession'
    BY <1>2 DEF Connect, history, AloneKnowsSession
  <2>3. AloneReplaces'
    BY <1>2 DEF Connect, history, AloneReplaces
  <2>4. SessionRoutable'
    BY <1>2 DEF Connect, redis, history, SessionRoutable
  <2>5. CleaningIsFinal'
    BY <1>2 DEF Connect, redis, history, CleaningIsFinal
  <2>6. NotMappedAgain'
    BY <1>2 DEF Connect, redis, NotMappedAgain
  <2>7. NoLeftover'
    BY <1>2 DEF Connect, redis, NoLeftover
  <2>8. MapHoldsRegistered'
    BY <1>2 DEF Connect, redis, MapHoldsRegistered
  <2> QED BY <2>1, <2>2, <2>3, <2>4, <2>5, <2>6, <2>7, <2>8
<1>3. ASSUME NEW s \in Sockets, Reject(s) PROVE RegistryInv'
  <2>1. OneRegistration'
    BY <1>3 DEF Reject, CloseTransport, history, OneRegistration
  <2>2. AloneKnowsSession'
    BY <1>3 DEF Reject, CloseTransport, history, AloneKnowsSession
  <2>3. AloneReplaces'
    BY <1>3 DEF Reject, CloseTransport, history, AloneReplaces
  <2>4. SessionRoutable'
    BY <1>3 DEF Reject, CloseTransport, redis, history, SessionRoutable
  <2>5. CleaningIsFinal'
    BY <1>3 DEF Reject, CloseTransport, redis, history, CleaningIsFinal, MapHoldsRegistered
  <2>6. NotMappedAgain'
    BY <1>3 DEF Reject, CloseTransport, redis, NotMappedAgain
  <2>7. NoLeftover'
    BY <1>3 DEF Reject, CloseTransport, redis, NoLeftover
  <2>8. MapHoldsRegistered'
    BY <1>3 DEF Reject, CloseTransport, redis, MapHoldsRegistered
  <2> QED BY <2>1, <2>2, <2>3, <2>4, <2>5, <2>6, <2>7, <2>8
<1>4. ASSUME NEW s \in Sockets, Accept(s) PROVE RegistryInv'
  <2>1. OneRegistration'
    BY <1>4 DEF Accept, history, OneRegistration
  <2>2. AloneKnowsSession'
    BY <1>4 DEF Accept, history, AloneKnowsSession
  <2>3. AloneReplaces'
    BY <1>4 DEF Accept, history, AloneReplaces
  <2>4. SessionRoutable'
    BY <1>4 DEF Accept, redis, history, SessionRoutable
  <2>5. CleaningIsFinal'
    BY <1>4 DEF Accept, redis, history, CleaningIsFinal
  <2>6. NotMappedAgain'
    BY <1>4 DEF Accept, redis, NotMappedAgain
  <2>7. NoLeftover'
    BY <1>4 DEF Accept, redis, NoLeftover
  <2>8. MapHoldsRegistered'
    BY <1>4 DEF Accept, redis, MapHoldsRegistered
  <2> QED BY <2>1, <2>2, <2>3, <2>4, <2>5, <2>6, <2>7, <2>8
<1>5. ASSUME NEW s \in Sockets, ReadPrevious(s) PROVE RegistryInv'
  <2>1. OneRegistration'
    BY <1>5 DEF ReadPrevious, OneRegistration
  <2>2. AloneKnowsSession'
    BY <1>5 DEF ReadPrevious, AloneKnowsSession, SessionRoutable
  <2>3. AloneReplaces'
    BY <1>5 DEF ReadPrevious, AloneReplaces
  <2>4. SessionRoutable'
    BY <1>5 DEF ReadPrevious, redis, SessionRoutable
  <2>5. CleaningIsFinal'
    BY <1>5 DEF ReadPrevious, redis, CleaningIsFinal
  <2>6. NotMappedAgain'
    BY <1>5 DEF ReadPrevious, redis, NotMappedAgain
  <2>7. NoLeftover'
    BY <1>5 DEF ReadPrevious, redis, NoLeftover
  <2>8. MapHoldsRegistered'
    BY <1>5 DEF ReadPrevious, redis, MapHoldsRegistered
  <2> QED BY <2>1, <2>2, <2>3, <2>4, <2>5, <2>6, <2>7, <2>8
<1>6. ASSUME NEW s \in Sockets, Register(s) PROVE RegistryInv'
  <2>1. OneRegistration'
    BY <1>6 DEF Register, history, OneRegistration
  <2>2. AloneKnowsSession'
    BY <1>6 DEF Register, history, AloneKnowsSession
  <2>3. AloneReplaces'
    BY <1>6 DEF Register, history, AloneReplaces, AloneKnowsSession
  <2>4. SessionRoutable'
    BY <1>6 DEF Register, redis, history, SessionRoutable
  <2>5. CleaningIsFinal'
    BY <1>6 DEF Register, redis, history, CleaningIsFinal
  <2>6. NotMappedAgain'
    BY <1>6 DEF Register, redis, NotMappedAgain, CleaningIsFinal
  <2>7. NoLeftover'
    BY <1>6 DEF Register, redis, NoLeftover, CleaningIsFinal
  <2>8. MapHoldsRegistered'
    BY <1>6 DEF Register, redis, MapHoldsRegistered, CleaningIsFinal
  <2> QED BY <2>1, <2>2, <2>3, <2>4, <2>5, <2>6, <2>7, <2>8
<1>7. ASSUME NEW s \in Sockets, WriteMapping(s) PROVE RegistryInv'
  <2>1. OneRegistration'
    BY <1>7 DEF WriteMapping, history, OneRegistration
  <2>2. AloneKnowsSession'
    BY <1>7 DEF WriteMapping, history, AloneKnowsSession, OneRegistration
  <2>3. AloneReplaces'
    BY <1>7 DEF WriteMapping, history, AloneReplaces, OneRegistration
  <2>4. SessionRoutable'
    BY <1>7 DEF WriteMapping, history, SessionRoutable, AloneReplaces
  <2>5. CleaningIsFinal'
    BY <1>7 DEF WriteMapping, history, CleaningIsFinal
  <2>6. NotMappedAgain'
    BY <1>7 DEF WriteMapping, NotMappedAgain, CleaningIsFinal
  <2>7. NoLeftover'
    BY <1>7 DEF WriteMapping, NoLeftover, CleaningIsFinal
  <2>8. MapHoldsRegistered'
    BY <1>7 DEF WriteMapping, MapHoldsRegistered, CleaningIsFinal
  <2> QED BY <2>1, <2>2, <2>3, <2>4, <2>5, <2>6, <2>7, <2>8
<1>8. ASSUME NEW s \in Sockets, WriteKeys(s) PROVE RegistryInv'
  <2>1. OneRegistration'
    BY <1>8 DEF WriteKeys, history, OneRegistration
  <2>2. AloneKnowsSession'
    BY <1>8 DEF WriteKeys, redis, history, AloneKnowsSession, CleaningIsFinal
  <2>3. AloneReplaces'
    BY <1>8 DEF WriteKeys, history, AloneReplaces
  <2>4. SessionRoutable'
    BY <1>8 DEF WriteKeys, history, SessionRoutable
  <2>5. CleaningIsFinal'
    BY <1>8 DEF WriteKeys, history, CleaningIsFinal
  <2>6. NotMappedAgain'
    BY <1>8 DEF WriteKeys, NotMappedAgain
  <2>7. NoLeftover'
    BY <1>8 DEF WriteKeys, NoLeftover, CleaningIsFinal
  <2>8. MapHoldsRegistered'
    BY <1>8 DEF WriteKeys, MapHoldsRegistered, CleaningIsFinal
  <2> QED BY <2>1, <2>2, <2>3, <2>4, <2>5, <2>6, <2>7, <2>8
<1>9. ASSUME NEW s \in Sockets, ReadCurrent(s) PROVE RegistryInv'
  <2>1. OneRegistration'
    BY <1>9 DEF ReadCurrent, history, OneRegistration
  <2>2. AloneKnowsSession'
    BY <1>9 DEF ReadCurrent, history, AloneKnowsSession
  <2>3. AloneReplaces'
    BY <1>9 DEF ReadCurrent, history, AloneReplaces
  <2>4. SessionRoutable'
    BY <1>9 DEF ReadCurrent, redis, history, SessionRoutable
  <2>5. CleaningIsFinal'
    BY <1>9 DEF ReadCurrent, redis, history, CleaningIsFinal
  <2>6. NotMappedAgain'
    BY <1>9 DEF ReadCurrent, redis, NotMappedAgain
  <2>7. NoLeftover'
    BY <1>9 DEF ReadCurrent, redis, NoLeftover
  <2>8. MapHoldsRegistered'
    BY <1>9 DEF ReadCurrent, redis, MapHoldsRegistered
  <2> QED BY <2>1, <2>2, <2>3, <2>4, <2>5, <2>6, <2>7, <2>8
<1>10. ASSUME NEW s \in Sockets, ClearMapping(s) PROVE RegistryInv'
  <2>1. OneRegistration'
    BY <1>10 DEF ClearMapping, OneRegistration
  <2>2. AloneKnowsSession'
    BY <1>10 DEF ClearMapping, AloneKnowsSession, CleaningIsFinal
  <2>3. AloneReplaces'
    BY <1>10 DEF ClearMapping, AloneReplaces, CleaningIsFinal
  <2>4. SessionRoutable'
    BY <1>10 DEF ClearMapping, SessionRoutable, CleaningIsFinal
  <2>5. CleaningIsFinal'
    BY <1>10 DEF ClearMapping, CleaningIsFinal
  <2>6. NotMappedAgain'
    BY <1>10 DEF ClearMapping, NotMappedAgain
  <2>7. NoLeftover'
    BY <1>10 DEF ClearMapping, NoLeftover, NotMappedAgain
  <2>8. MapHoldsRegistered'
    BY <1>10 DEF ClearMapping, MapHoldsRegistered
  <2> QED BY <2>1, <2>2, <2>3, <2>4, <2>5, <2>6, <2>7, <2>8
<1>11. ASSUME NEW s \in Sockets, DeleteKeys(s) PROVE RegistryInv'
  <2>1. OneRegistration'
    BY <1>11 DEF DeleteKeys, history, OneRegistration
  <2>2. AloneKnowsSession'
    BY <1>11 DEF DeleteKeys, history, AloneKnowsSession
  <2>3. AloneReplaces'
    BY <1>11 DEF DeleteKeys, history, AloneReplaces
  <2>4. SessionRoutable'
    BY <1>11 DEF DeleteKeys, history, SessionRoutable
  <2>5. CleaningIsFinal'
    BY <1>11 DEF DeleteKeys, history, CleaningIsFinal
  <2>6. NotMappedAgain'
    BY <1>11 DEF DeleteKeys, NotMappedAgain
  <2>7. NoLeftover'
    BY <1>11 DEF DeleteKeys, NoLeftover, CleaningIsFinal
  <2>8. MapHoldsRegistered'
    BY <1>11 DEF DeleteKeys, MapHoldsRegistered, CleaningIsFinal
  <2> QED BY <2>1, <2>2, <2>3, <2>4, <2>5, <2>6, <2>7, <2>8
<1>12. ASSUME NEW s \in Sockets, Close(s) PROVE RegistryInv'
  <2>1. OneRegistration'
    BY <1>12 DEF Close, CloseTransport, history, OneRegistration
  <2>2. AloneKnowsSession'
    BY <1>12 DEF Close, CloseTransport, history, AloneKnowsSession
  <2>3. AloneReplaces'
    BY <1>12 DEF Close, CloseTransport, history, AloneReplaces
  <2>4. SessionRoutable'
    BY <1>12 DEF Close, CloseTransport, redis, history, SessionRoutable, CleaningIsFinal
  <2>5. CleaningIsFinal'
    BY <1>12 DEF Close, CloseTransport, redis, history, CleaningIsFinal, MapHoldsRegistered
  <2>6. NotMappedAgain'
    BY <1>12 DEF Close, CloseTransport, redis, history, NotMappedAgain, CleaningIsFinal
  <2>7. NoLeftover'
    BY <1>12 DEF Close, CloseTransport, redis, NoLeftover
  <2>8. MapHoldsRegistered'
    BY <1>12 DEF Close, CloseTransport, redis, MapHoldsRegistered
  <2> QED BY <2>1, <2>2, <2>3, <2>4, <2>5, <2>6, <2>7, <2>8
<1>13. ASSUME NEW s \in Sockets, Kick(s) PROVE RegistryInv'
  <2>1. OneRegistration'
    BY <1>13 DEF Kick, CloseTransport, history, OneRegistration
  <2>2. AloneKnowsSession'
    BY <1>13 DEF Kick, CloseTransport, redis, history, AloneKnowsSession, CleaningIsFinal
  <2>3. AloneReplaces'
    BY <1>13 DEF Kick, CloseTransport, redis, history, AloneReplaces, CleaningIsFinal
  <2>4. SessionRoutable'
    BY <1>13 DEF Kick, CloseTransport, redis, history, SessionRoutable
  <2>5. CleaningIsFinal'
    BY <1>13 DEF Kick, CloseTransport, redis, history, CleaningIsFinal, MapHoldsRegistered
  <2>6. NotMappedAgain'
    BY <1>13 DEF Kick, CloseTransport, redis, NotMappedAgain
  <2>7. NoLeftover'
    BY <1>13 DEF Kick, CloseTransport, redis, NoLeftover
  <2>8. MapHoldsRegistered'
    BY <1>13 DEF Kick, CloseTransport, redis, MapHoldsRegistered
  <2> QED BY <2>1, <2>2, <2>3, <2>4, <2>5, <2>6, <2>7, <2>8
<1>14. ASSUME NEW s \in Sockets, Crash(s) PROVE RegistryInv'
  <2>1. OneRegistration'
    BY <1>14 DEF Crash, history, OneRegistration
  <2>2. AloneKnowsSession'
    BY <1>14 DEF Crash, history, AloneKnowsSession
  <2>3. AloneReplaces'
    BY <1>14 DEF Crash, history, AloneReplaces
  <2>4. SessionRoutable'
    BY <1>14 DEF Crash, redis, history, SessionRoutable
  <2>5. CleaningIsFinal'
    BY <1>14 DEF Crash, redis, history, CleaningIsFinal
  <2>6. NotMappedAgain'
    BY <1>14 DEF Crash, redis, NotMappedAgain
  <2>7. NoLeftover'
    BY <1>14 DEF Crash, redis, NoLeftover
  <2>8. MapHoldsRegistered'
    BY <1>14 DEF Crash, redis, MapHoldsRegistered
  <2> QED BY <2>1, <2>2, <2>3, <2>4, <2>5, <2>6, <2>7, <2>8
<1>15. CASE Sweep
    BY <1>15 DEF Sweep, SweepList, SweepSnapshot, SweepEntry, SweepEnd, handlers, redis, history,
         OneRegistration, AloneKnowsSession, AloneReplaces,
         SessionRoutable, MapHoldsRegistered, CleaningIsFinal, NotMappedAgain, NoLeftover
<1> QED
    BY <1>1, <1>2, <1>3, <1>4, <1>5, <1>6, <1>7, <1>8, <1>9, <1>10, <1>11, <1>12, <1>13, <1>14, <1>15
    DEF Next, Continue

\* The relation between handshakes, mapping and cleanups is invariant.
THEOREM RegistryInvariant == Spec => []RegistryInv
<1>1. Init => RegistryInv
    BY InitRegistry
<1>2. RegistryInv /\ [Next]_vars => RegistryInv'
    BY RegistryStep
<1> QED BY <1>1, <1>2, PTL DEF Spec

LEMMA RegistryImpliesSingle == RegistryInv => SingleSessionButForRaces
<1> SUFFICES ASSUME RegistryInv,
                    NEW s \in Sockets, NEW t \in Sockets,
                    s # t, Owner[s] = Owner[t], Undisturbed(Owner[s]),
                    Registered(s), Registered(t), Live(s), Live(t)
             PROVE  FALSE
    BY DEF SingleSessionButForRaces
<1>1. CASE Mapped(s) /\ Mapped(t)
    BY <1>1 DEF RegistryInv, SessionRoutable
<1>2. CASE conn[s] = "writing" /\ Mapped(t)
    BY <1>2 DEF RegistryInv, AloneReplaces
<1>3. CASE Mapped(s) /\ conn[t] = "writing"
    BY <1>3 DEF RegistryInv, AloneReplaces
<1>4. CASE conn[s] = "writing" /\ conn[t] = "writing"
    BY <1>4 DEF RegistryInv, OneRegistration, InRegistration
<1> QED BY <1>1, <1>2, <1>3, <1>4 DEF Registered, Mapped

\* A user of whom no two handshakes overlapped, and whose mapping no stale
\* disconnect handler removed, never has two live registered sockets.
THEOREM SingleSession == Spec => []SingleSessionButForRaces
  BY RegistryInvariant, RegistryImpliesSingle, PTL

\* Nor does such a user have a live session that emitToUser does not find.
THEOREM Routable == Spec => []SessionRoutable
<1>1. RegistryInv => SessionRoutable
    BY DEF RegistryInv
<1> QED BY <1>1, RegistryInvariant, PTL

\* A handled disconnect leaves nothing of its socket behind, with or without
\* the races.
THEOREM NothingLeft == Spec => []NoLeftover
<1>1. RegistryInv => NoLeftover
    BY DEF RegistryInv
<1> QED BY <1>1, RegistryInvariant, PTL

-----------------------------------------------------------------------------
(* The listing *)

\* The listing prunes sockets that had opened when it began and were not open when it
\* asked for those of the cluster.
SweepInv ==
    /\ \A s \in meta \cup sweep.keys : link[s] # "idle"
    /\ sweep.at = "scanning" => \A s \in sweep.keys \ sweep.active : link[s] = "closed"

LEMMA LinksEnd ==
    ASSUME RegistryInv, [Next]_vars, NEW s \in Sockets
    PROVE  /\ link[s] # "idle" => link'[s] # "idle"
           /\ link[s] = "closed" => link'[s] = "closed"
  BY DEF RegistryInv, TypeOK, Next, vars, Connect, Continue, Reject, Accept, ReadPrevious, Register,
         WriteMapping, WriteKeys, ReadCurrent, ClearMapping, DeleteKeys, Close, Kick, Crash,
         CloseTransport, Sweep, SweepList, SweepSnapshot, SweepEntry, SweepEnd

\* Who writes the metadata and the state of the listing.
LEMMA SweepSteps ==
    ASSUME [Next]_vars
    PROVE  \/ UNCHANGED <<meta, sweep>>
           \/ \E s \in Sockets : WriteKeys(s) \/ DeleteKeys(s)
           \/ Sweep
  BY DEF Next, vars, redis, Connect, Continue, Reject, Accept, ReadPrevious, Register,
         WriteMapping, ReadCurrent, ClearMapping, Close, Kick, Crash

LEMMA SweepStep == RegistryInv /\ SweepInv /\ [Next]_vars => SweepInv'
<1> SUFFICES ASSUME RegistryInv, SweepInv, [Next]_vars PROVE SweepInv'
    OBVIOUS
<1>1. TypeOK /\ meta \subseteq Sockets /\ sweep.keys \subseteq Sockets
    BY DEF RegistryInv, TypeOK
<1>2. CASE UNCHANGED <<meta, sweep>>
    BY <1>1, <1>2, LinksEnd DEF SweepInv
<1>3. ASSUME NEW s \in Sockets, WriteKeys(s) PROVE SweepInv'
  <2>1. link[s] # "idle" /\ UNCHANGED <<link, sweep>> /\ meta' = meta \cup {s}
      BY <1>3 DEF WriteKeys, RegistryInv, MapHoldsRegistered
  <2> QED BY <2>1 DEF SweepInv
<1>4. ASSUME NEW s \in Sockets, DeleteKeys(s) PROVE SweepInv'
    BY <1>4 DEF DeleteKeys, SweepInv
<1>5. CASE SweepList
    BY <1>5 DEF SweepList, SweepInv, redis
<1>6. CASE SweepSnapshot
  <2>1. /\ sweep' = [sweep EXCEPT !.at = "scanning", !.active = {s \in Sockets : link[s] = "open"}]
        /\ meta' = meta /\ link' = link
      BY <1>6 DEF SweepSnapshot, redis
  <2>2. sweep'.keys = sweep.keys /\ sweep'.active = {s \in Sockets : link[s] = "open"}
      BY <1>1, <2>1 DEF TypeOK
  <2>3. \A s \in Sockets : link[s] \in {"idle", "open", "closed"}
      BY <1>1 DEF TypeOK, LinkStates
  <2> QED BY <1>1, <2>1, <2>2, <2>3 DEF SweepInv
<1>7. CASE SweepEntry
  <2>1. PICK s \in sweep.keys : /\ sweep' = [sweep EXCEPT !.keys = @ \ {s}]
                                /\ meta' \subseteq meta
      BY <1>7 DEF SweepEntry
  <2>2. sweep'.at = sweep.at /\ sweep'.active = sweep.active /\ sweep'.keys \subseteq sweep.keys
      BY <1>1, <2>1 DEF TypeOK
  <2>3. link' = link
      BY <1>7 DEF SweepEntry
  <2> QED BY <2>1, <2>2, <2>3 DEF SweepInv
<1>8. CASE SweepEnd
    BY <1>8 DEF SweepEnd, SweepInv, redis
<1> QED BY <1>2, <1>3, <1>4, <1>5, <1>6, <1>7, <1>8, SweepSteps DEF Sweep

\* The listing that prunes metadata spares every socket that is connected, however many
\* connect and close while it scans (getActiveSocketsMetadata).
THEOREM SweepSparesConnected == Spec => SweepSparesLive
<1>1. Init => SweepInv
    BY DEF Init, SweepInv
<1>2. RegistryInv /\ SweepInv /\ [Next]_vars => [\A s \in meta \ meta' : link[s] = "closed"]_vars
  <2> SUFFICES ASSUME RegistryInv, SweepInv, [Next]_vars, NEW s \in meta \ meta'
               PROVE  link[s] = "closed"
      OBVIOUS
  <2>1. ASSUME NEW t \in Sockets, DeleteKeys(t) PROVE link[s] = "closed"
    <3>1. s = t /\ disc[t] = "deleting"
        BY <2>1 DEF DeleteKeys
    <3> QED BY <3>1 DEF RegistryInv, CleaningIsFinal, Cleaning
  <2>2. CASE SweepEntry
      BY <2>2 DEF SweepEntry, SweepInv
  <2>3. \A t \in Sockets : ~WriteKeys(t)
      BY DEF WriteKeys
  <2>4. ~SweepList /\ ~SweepSnapshot /\ ~SweepEnd
      BY DEF SweepList, SweepSnapshot, SweepEnd, redis
  <2> QED BY <2>1, <2>2, <2>3, <2>4, SweepSteps DEF Sweep
<1> QED BY <1>1, <1>2, SweepStep, RegistryInvariant, PTL DEF Spec, SweepSparesLive

-----------------------------------------------------------------------------
(* RateLimiter: types *)

LEMMA RateInitType == RateInit => RateTypeOK
  BY RateAssumption DEF RateInit, RateTypeOK, Absent, Instants

LEMMA RateTypeStep == RateTypeOK /\ [RateNext]_rateVars => RateTypeOK'
<1> SUFFICES ASSUME RateTypeOK, [RateNext]_rateVars PROVE RateTypeOK'
    OBVIOUS
<1> USE RateAssumption DEF RateTypeOK, Instants
<1>1. CASE UNCHANGED rateVars
    BY <1>1 DEF rateVars, Absent
<1>2. CASE Tick
    BY <1>2 DEF Tick, Absent
<1>3. CASE Hit
  <2>1. CASE HitExpired
    <3>1. entry' \in [count : 0..MaxCount, windowStart : 0..now'] /\ entry'.count # 0
        BY <1>3, <2>1 DEF Hit, HitExpired, Expired
    <3>2. passed' \in [Instants -> Nat] /\ now' \in Instants
        BY <1>3, <2>1 DEF Hit, HitExpired, Admit
    <3>3. connected' \in BOOLEAN
        BY <1>3 DEF Hit
    <3>4. entry'.count = 0 => entry' = Absent
        BY <3>1
    <3> QED BY <3>1, <3>2, <3>3, <3>4
  <2>2. CASE HitWindow
    <3>1. entry' \in [count : 0..MaxCount, windowStart : 0..now'] /\ entry'.count # 0
        BY <1>3, <2>2 DEF Hit, HitWindow, Absent
    <3>2. passed' \in [Instants -> Nat] /\ now' \in Instants
      <4>1. now' = now /\ (passed' = passed \/ Admit)
          BY <1>3, <2>2 DEF Hit, HitWindow
      <4>2. Admit => passed' \in [Instants -> Nat]
          BY DEF Admit
      <4> QED BY <4>1, <4>2
    <3>3. connected' \in BOOLEAN
        BY <1>3 DEF Hit
    <3>4. entry'.count = 0 => entry' = Absent
        BY <3>1
    <3> QED BY <3>1, <3>2, <3>3, <3>4
  <2> QED BY <1>3, <2>1, <2>2 DEF Hit
<1>4. CASE SweepStale
  <2>1. entry' \in [count : 0..MaxCount, windowStart : 0..now'] /\ entry' = Absent
      BY <1>4 DEF SweepStale, Absent
  <2>2. passed' \in [Instants -> Nat] /\ now' \in Instants /\ connected' \in BOOLEAN
      BY <1>4 DEF SweepStale
  <2> QED BY <2>1, <2>2
<1>5. CASE Disconnect
  <2>1. entry' \in [count : 0..MaxCount, windowStart : 0..now'] /\ entry' = Absent
      BY <1>5 DEF Disconnect, Absent
  <2>2. passed' \in [Instants -> Nat] /\ now' \in Instants /\ connected' \in BOOLEAN
      BY <1>5 DEF Disconnect
  <2> QED BY <2>1, <2>2
<1> QED BY <1>1, <1>2, <1>3, <1>4, <1>5 DEF RateNext

\* A stored entry has counted an event, and its window starts no later than
\* now.
THEOREM RateTypeCorrect == RateSpec => []RateTypeOK
<1>1. RateInit => RateTypeOK
    BY RateInitType
<1>2. RateTypeOK /\ [RateNext]_rateVars => RateTypeOK'
    BY RateTypeStep
<1> QED BY <1>1, <1>2, PTL DEF RateSpec

-----------------------------------------------------------------------------
(* RateLimiter: the quota per window *)

\* The sweep only drops entries that have expired.
LEMMA StaleIsExpired ==
  ASSUME RateTypeOK, entry # Absent, Stale(entry)
  PROVE  Expired
  BY RateAssumption DEF RateTypeOK, Stale, Expired, Instants

LEMMA InitRefines == RateInit => Quota!Init
  BY DEF RateInit, Quota!Init, Open, Absent, Instants

LEMMA StepRefines == RateTypeOK /\ [RateNext]_rateVars => [Quota!Next]_(Quota!vars)
<1> SUFFICES ASSUME RateTypeOK, [RateNext]_rateVars PROVE [Quota!Next]_(Quota!vars)
    OBVIOUS
<1> USE RateAssumption DEF RateTypeOK, Instants
<1>1. CASE UNCHANGED rateVars
    BY <1>1 DEF rateVars, Quota!vars, Open, Expired, Absent
<1>2. CASE Tick
  <2>1. Quota!Pass
      BY <1>2 DEF Tick, Quota!Pass, Open, Expired, Absent
  <2> QED BY <2>1 DEF Quota!Next
<1>3. CASE Hit
  <2>1. CASE HitExpired
      BY <1>3, <2>1 DEF Hit, HitExpired, Admit, Quota!Next, Quota!Offer, Open, Expired, Absent
  <2>2. CASE HitWindow
    <3> DEFINE used == IF Open THEN entry.count ELSE 0
    <3>1. used = entry.count /\ connected /\ now' = now /\ connected' = connected
        BY <1>3, <2>2 DEF Hit, HitWindow, Open, Absent
    <3>2. passed' = [t \in 0..MaxNow |-> IF used + 1 <= Limit /\ t >= now THEN passed[t] + 1
                                                                       ELSE passed[t]]
      <4>1. CASE used + 1 > Limit
          BY <2>2, <3>1, <4>1 DEF HitWindow
      <4>2. CASE used + 1 <= Limit
        <5>1. Admit
            BY <2>2, <3>1, <4>2 DEF HitWindow
        <5> QED BY <4>2, <5>1 DEF Admit
      <4> QED BY <3>1, <4>1, <4>2
    <3> QED
        BY <1>3, <2>2, <3>1, <3>2 DEF HitWindow, Quota!Next, Quota!Offer, Open, Expired, Absent
  <2> QED BY <1>3, <2>1, <2>2 DEF Hit
<1>4. CASE SweepStale
  <2>1. Expired
      BY <1>4, StaleIsExpired DEF SweepStale
  <2>2. UNCHANGED Quota!vars
      BY <1>4, <2>1 DEF SweepStale, Quota!vars, Open
  <2> QED BY <2>2
<1>5. CASE Disconnect
    BY <1>5 DEF Disconnect, Quota!Next, Quota!Leave, Open
<1> QED BY <1>1, <1>2, <1>3, <1>4, <1>5 DEF RateNext

\* The limiter of the code, lazy resets and sweeps included, implements the
\* plain quota of Limit events per window.
THEOREM ImplementsQuota == RateSpec => QuotaSpec
<1>1. RateInit => Quota!Init
    BY InitRefines
<1>2. RateTypeOK /\ [RateNext]_rateVars => [Quota!Next]_(Quota!vars)
    BY StepRefines
<1> QED BY <1>1, <1>2, RateTypeCorrect, PTL DEF RateSpec, QuotaSpec, Quota!Spec

-----------------------------------------------------------------------------
(* RateLimiter: at most twice the limit in a window's length *)

\* The instant that is a window before t, or the first.
Ago(t) == IF t < Window THEN 0 ELSE t - Window

\* Events are counted once and for all, and none has passed after now.
Cumulative ==
    /\ \A t, u \in Instants : t <= u => passed[t] <= passed[u]
    /\ \A t \in Instants : now <= t => passed[t] = passed[now]

\* The entry counts what has passed since its window started, and no event has passed after
\* the window; the window's length before it let no more than the limit through.
WindowCounted ==
    entry # Absent =>
        /\ passed[now] = Before(entry.windowStart)
                           + (IF entry.count <= Limit THEN entry.count ELSE Limit)
        /\ Before(entry.windowStart) <= Before(Ago(entry.windowStart)) + Limit
        /\ \A t \in Instants : entry.windowStart + Window <= t + 1 => passed[t] = passed[now]

\* Without an entry no event has passed for a window's length.
Rested == connected /\ entry = Absent => passed[now] = Before(Ago(now))

WindowInv == RateTypeOK /\ Cumulative /\ WindowCounted /\ Rested /\ SlidingBound

LEMMA BeforeType ==
    ASSUME RateTypeOK
    PROVE  \A t \in Instants : passed[t] \in Nat /\ Before(t) \in Nat
  BY RateAssumption DEF RateTypeOK, Before, Instants

LEMMA BeforeGrows ==
    ASSUME RateTypeOK, Cumulative, NEW t \in Instants, NEW u \in Instants, t <= u
    PROVE  /\ Before(t) \in Nat
           /\ Before(t) <= Before(u)
           /\ Before(t) <= passed[t]
           /\ Ago(t) \in Instants /\ Ago(t) <= t /\ Ago(t) <= Ago(u)
<1> USE RateAssumption DEF Instants
<1>1. \A v \in Instants : passed[v] \in Nat
  BY DEF RateTypeOK
<1>2. Before(t) \in Nat /\ Before(t) <= passed[t]
  BY <1>1 DEF Before, Cumulative
<1>3. Before(t) <= Before(u)
  <2>1. CASE t = 0
    BY <1>1, <2>1 DEF Before
  <2>2. CASE t # 0
    <3>1. t - 1 \in Instants /\ u - 1 \in Instants /\ t - 1 <= u - 1
      BY <2>2
    <3>2. Before(t) = passed[t - 1] /\ Before(u) = passed[u - 1]
      BY <2>2 DEF Before
    <3> QED
      BY <3>1, <3>2 DEF Cumulative
  <2> QED
    BY <2>1, <2>2
<1>4. Ago(t) \in Instants /\ Ago(t) <= t /\ Ago(t) <= Ago(u)
  BY DEF Ago
<1> QED
  BY <1>2, <1>3, <1>4

\* An event that gets through.
LEMMA Admitting ==
    ASSUME RateTypeOK, Cumulative, now' = now, Admit
    PROVE  /\ Cumulative'
           /\ \A t \in Instants : t <= now => Before(t)' = Before(t)
           /\ \A t \in Instants : passed'[t] = IF t < now THEN passed[t] ELSE passed[now] + 1
<1> USE RateAssumption DEF Instants
<1>1. \A t \in Instants : passed[t] \in Nat
  BY DEF RateTypeOK
<1>2. now \in Instants
  BY DEF RateTypeOK
<1>3. \A t \in Instants : passed'[t] = IF t < now THEN passed[t] ELSE passed[now] + 1
  BY <1>1, <1>2 DEF Admit, Cumulative
<1>4. \A t \in Instants : t <= now => Before(t)' = Before(t)
  BY <1>2, <1>3 DEF Before
<1>5. Cumulative'
  BY <1>1, <1>2, <1>3 DEF Cumulative
<1> QED
  BY <1>3, <1>4, <1>5

\* An event that gets through in an open window keeps the bound: an interval of a window's
\* length that ends now reaches into the window before at most.
LEMMA AdmittedBound ==
    ASSUME RateTypeOK, Cumulative, SlidingBound, now' = now, Admit,
           NEW w \in Instants, w <= now, now < w + Window,
           Before(w) <= Before(Ago(w)) + Limit, passed[now] + 1 <= Before(w) + Limit
    PROVE  SlidingBound'
<1> USE RateAssumption DEF Instants
<1>1. \A t \in Instants : passed[t] \in Nat /\ Before(t) \in Nat
  BY BeforeType
<1>2. now \in Instants
  BY DEF RateTypeOK
<1>3. ASSUME NEW t \in Instants, NEW u \in t..(t + Window - 1) \cap Instants
      PROVE  passed'[u] <= Before(t)' + 2 * Limit
  <2>1. passed'[u] = IF u < now THEN passed[u] ELSE passed[now] + 1
    BY <1>3, Admitting
  <2>2. CASE u < now
    <3>1. Before(t)' = Before(t)
      BY <1>2, <1>3, <2>2, Admitting
    <3> QED
      BY <1>3, <2>1, <2>2, <3>1 DEF SlidingBound
  <2>3. CASE now <= u /\ t <= now
    <3>1. Before(t)' = Before(t)
      BY <2>3, Admitting
    <3>2. Before(w) <= Before(t) + Limit
      <4>1. CASE w <= t
        <5>1. Before(w) <= Before(t)
          BY <4>1, BeforeGrows
        <5> QED
          BY <1>1, <5>1
      <4>2. CASE t < w
        <5>1. Ago(w) \in Instants /\ Ago(w) <= t
          BY <1>2, <1>3, <2>3, <4>2 DEF Ago
        <5>2. Before(Ago(w)) <= Before(t)
          BY <5>1, BeforeGrows
        <5> QED
          BY <1>1, <5>1, <5>2
      <4> QED
        BY <4>1, <4>2
    <3> QED
      BY <1>1, <1>2, <2>1, <2>3, <3>1, <3>2
  <2>4. CASE now < t
    <3>1. t - 1 \in Instants /\ now <= t - 1
      BY <1>2, <2>4
    <3>2. Before(t)' = passed'[t - 1]
      BY <1>2, <2>4 DEF Before
    <3>3. passed'[t - 1] = passed[now] + 1 /\ passed'[u] = passed[now] + 1
      BY <1>2, <1>3, <2>4, <3>1, Admitting
    <3> QED
      BY <1>1, <1>2, <3>2, <3>3
  <2> QED
    BY <1>2, <1>3, <2>2, <2>3, <2>4
<1> QED
  BY <1>3 DEF SlidingBound

LEMMA InitWindow == RateInit => WindowInv
<1> SUFFICES ASSUME RateInit PROVE WindowInv
    OBVIOUS
<1> USE RateAssumption DEF Instants
<1>1. RateTypeOK
  BY RateInitType
<1>2. \A t \in Instants : passed[t] = 0 /\ Before(t) = 0
  BY DEF RateInit, Before
<1>3. now = 0 /\ entry = Absent /\ Ago(0) \in Instants
  BY DEF RateInit, Ago
<1> QED
  BY <1>1, <1>2, <1>3 DEF WindowInv, Cumulative, WindowCounted, Rested, SlidingBound

LEMMA WindowStep == WindowInv /\ [RateNext]_rateVars => WindowInv'
<1> SUFFICES ASSUME WindowInv, [RateNext]_rateVars PROVE WindowInv'
    OBVIOUS
<1> USE RateAssumption DEF Instants
<1>1. RateTypeOK /\ Cumulative /\ WindowCounted /\ Rested /\ SlidingBound
  BY DEF WindowInv
<1>2. RateTypeOK'
  BY <1>1, RateTypeStep
<1>3. /\ now \in Instants /\ now' \in Instants
      /\ entry.windowStart \in Instants /\ entry.windowStart <= now /\ entry.count \in Nat
      /\ entry # Absent => entry.count # 0
  BY <1>1, <1>2 DEF RateTypeOK, Absent
<1>4. \A t \in Instants : passed[t] \in Nat /\ Before(t) \in Nat
  BY <1>1, BeforeType
<1>5. ASSUME UNCHANGED <<now, passed>> PROVE Cumulative' /\ SlidingBound'
  BY <1>1, <1>5 DEF Cumulative, SlidingBound, Before
<1>6. CASE UNCHANGED rateVars
  BY <1>1, <1>2, <1>6
     DEF rateVars, WindowInv, Cumulative, WindowCounted, Rested, SlidingBound, Before, Absent
<1>7. CASE Tick
  <2>1. now < now' /\ UNCHANGED <<connected, entry, passed>>
    BY <1>3, <1>7 DEF Tick
  <2>2. passed[now'] = passed[now]
    BY <1>1, <1>3, <2>1 DEF Cumulative
  <2>3. Cumulative' /\ SlidingBound'
    BY <1>1, <1>3, <2>1, <2>2 DEF Cumulative, SlidingBound, Before
  <2>4. WindowCounted'
    BY <1>1, <2>1, <2>2 DEF WindowCounted, Before, Ago, Absent
  <2>5. Rested'
    <3>1. SUFFICES ASSUME connected, entry = Absent PROVE passed[now'] = Before(Ago(now'))
      BY <2>1 DEF Rested, Before, Ago, Absent
    <3>2. /\ Ago(now) \in Instants /\ Ago(now') \in Instants
          /\ Ago(now) <= Ago(now') /\ Ago(now') <= now'
      BY <1>1, <1>3, <2>1, BeforeGrows
    <3>3. Before(Ago(now)) <= Before(Ago(now')) /\ Before(Ago(now')) <= Before(now')
            /\ Before(now') <= passed[now']
      BY <1>1, <1>3, <3>2, BeforeGrows
    <3>4. passed[now] = Before(Ago(now))
      BY <1>1, <3>1 DEF Rested
    <3> QED
      BY <1>3, <1>4, <2>2, <3>2, <3>3, <3>4
  <2> QED
    BY <1>2, <2>3, <2>4, <2>5 DEF WindowInv
<1>8. CASE Hit
  <2>1. now' = now /\ connected /\ connected' = connected
    BY <1>8 DEF Hit
  <2>2. CASE HitExpired
    <3>1. /\ entry # Absent /\ now - entry.windowStart >= Window /\ Admit
          /\ entry' = [count |-> 1, windowStart |-> now]
      BY <2>2 DEF HitExpired, Expired
    <3>2. /\ entry'.count = 1 /\ entry'.windowStart = now /\ entry' # Absent
      BY <3>1 DEF Absent
    <3>3. passed[now] <= Before(entry.windowStart) + Limit
      BY <1>1, <1>3, <1>4, <3>1 DEF WindowCounted
    <3>4. Before(now) <= Before(Ago(now)) + Limit
      <4>1. Ago(now) \in Instants /\ entry.windowStart <= Ago(now)
        BY <1>3, <3>1 DEF Ago
      <4>2. Before(entry.windowStart) <= Before(Ago(now)) /\ Before(now) <= passed[now]
        BY <1>1, <1>3, <4>1, BeforeGrows
      <4> QED
        BY <1>3, <1>4, <3>3, <4>1, <4>2
    <3>5. Before(now) = passed[now]
      <4>1. CASE now = 0
        BY <1>3, <3>1, <4>1
      <4>2. CASE now # 0
        <5>1. now - 1 \in Instants /\ entry.windowStart + Window <= (now - 1) + 1
          BY <1>3, <3>1, <4>2
        <5> QED
          BY <1>1, <3>1, <4>2, <5>1 DEF WindowCounted, Before
      <4> QED
        BY <4>1, <4>2
    <3>6. Cumulative' /\ passed'[now] = passed[now] + 1
      BY <1>1, <1>3, <1>4, <2>1, <3>1, Admitting
    <3>7. SlidingBound'
      BY <1>1, <1>3, <1>4, <2>1, <3>1, <3>4, <3>5, AdmittedBound
    <3>8. WindowCounted'
      <4>1. Ago(now) \in Instants /\ Ago(now) <= now
        BY <1>3 DEF Ago
      <4>2. Before(now)' = Before(now) /\ Before(Ago(now))' = Before(Ago(now))
        BY <1>1, <1>3, <2>1, <3>1, <4>1, Admitting
      <4>3. \A t \in Instants : now <= t => passed'[t] = passed'[now]
        BY <2>1, <3>6 DEF Cumulative
      <4>4. Before(entry.windowStart)' = Before(now)'
        BY <2>1, <3>2 DEF Before
      <4>5. Before(Ago(entry.windowStart))' = Before(Ago(now))'
        BY <2>1, <3>2 DEF Before, Ago
      <4>6. \A t \in Instants : now + Window <= t + 1 => passed'[t] = passed'[now]
        BY <1>3, <4>3
      <4> QED
        BY <2>1, <3>2, <3>4, <3>5, <3>6, <4>2, <4>4, <4>5, <4>6 DEF WindowCounted
    <3>9. Rested'
      BY <3>2 DEF Rested, Absent
    <3> QED
      BY <1>2, <3>6, <3>7, <3>8, <3>9 DEF WindowInv
  <2>3. CASE HitWindow
    <3>1. PICK w \in Instants : w = IF entry = Absent THEN now ELSE entry.windowStart
      BY <1>3
    <3>2. /\ entry' = [count |-> entry.count + 1, windowStart |-> w]
          /\ entry # Absent => now - entry.windowStart < Window
      BY <1>3, <2>3, <3>1 DEF HitWindow, Expired
    <3>3. entry'.count = entry.count + 1 /\ entry'.windowStart = w /\ entry' # Absent
      BY <1>3, <3>2 DEF Absent
    <3>4. w \in Instants /\ w <= now /\ now < w + Window
      BY <1>3, <3>2, <3>1
    <3>5. /\ passed[now] = Before(w) + (IF entry.count <= Limit THEN entry.count ELSE Limit)
          /\ Before(w) <= Before(Ago(w)) + Limit
      <4>1. CASE entry # Absent
        BY <1>1, <3>1, <4>1 DEF WindowCounted
      <4>2. CASE entry = Absent
        <5>1. entry.count = 0 /\ passed[now] = Before(Ago(now))
          BY <1>1, <2>1, <4>2 DEF Rested, Absent
        <5>2. /\ Ago(now) \in Instants
              /\ Before(Ago(now)) <= Before(now) /\ Before(now) <= passed[now]
          BY <1>1, <1>3, BeforeGrows
        <5> QED
          BY <1>3, <1>4, <3>1, <4>2, <5>1, <5>2
      <4> QED
        BY <4>1, <4>2
    <3>6. Ago(w) \in Instants /\ Ago(w) <= now
      BY <1>3, <3>4 DEF Ago
    <3>7. \A t \in Instants : w + Window <= t + 1 => now <= t
      BY <1>3, <3>4
    <3>8. Rested'
      BY <3>3 DEF Rested, Absent
    <3>9. CASE entry.count + 1 > Limit
      <4>1. passed' = passed
        BY <2>3, <3>9 DEF HitWindow
      <4>2. Cumulative' /\ SlidingBound'
        BY <1>5, <2>1, <4>1
      <4>3. Before(entry.windowStart)' = Before(w) /\ Before(Ago(entry.windowStart))' = Before(Ago(w))
        BY <3>3, <4>1 DEF Before, Ago
      <4>4. \A t \in Instants : w + Window <= t + 1 => passed'[t] = passed'[now]
        BY <1>1, <3>7, <4>1 DEF Cumulative
      <4>5. WindowCounted'
        BY <1>3, <1>4, <2>1, <3>3, <3>4, <3>5, <3>9, <4>1, <4>3, <4>4 DEF WindowCounted
      <4> QED
        BY <1>2, <3>8, <4>2, <4>5 DEF WindowInv
    <3>10. CASE entry.count + 1 <= Limit
      <4>1. Admit
        BY <1>3, <2>3, <3>10 DEF HitWindow
      <4>2. Cumulative' /\ passed'[now] = passed[now] + 1
        BY <1>1, <1>3, <1>4, <2>1, <4>1, Admitting
      <4>3. passed[now] + 1 <= Before(w) + Limit
        BY <1>3, <1>4, <3>4, <3>5, <3>10
      <4>4. SlidingBound'
        BY <1>1, <2>1, <3>4, <3>5, <4>1, <4>3, AdmittedBound
      <4>5. Before(w)' = Before(w) /\ Before(Ago(w))' = Before(Ago(w))
        BY <1>1, <2>1, <3>4, <3>6, <4>1, Admitting
      <4>6. Before(entry.windowStart)' = Before(w) /\ Before(Ago(entry.windowStart))' = Before(Ago(w))
        BY <3>3, <4>5 DEF Before, Ago
      <4>7. \A t \in Instants : w + Window <= t + 1 => passed'[t] = passed'[now]
        BY <2>1, <3>7, <4>2 DEF Cumulative
      <4>8. WindowCounted'
        BY <1>3, <1>4, <2>1, <3>3, <3>4, <3>5, <3>10, <4>2, <4>6, <4>7 DEF WindowCounted
      <4> QED
        BY <1>2, <3>8, <4>2, <4>4, <4>8 DEF WindowInv
    <3> QED
      BY <1>3, <3>9, <3>10
  <2> QED
    BY <1>8, <2>2, <2>3 DEF Hit
<1>9. CASE SweepStale
  <2>1. /\ UNCHANGED <<now, connected, passed>>
        /\ entry # Absent /\ now - entry.windowStart > Window * 2 /\ entry' = Absent
    BY <1>9 DEF SweepStale, Stale
  <2>2. passed[now] = Before(Ago(now))
    <3>1. Ago(now) = now - Window /\ Ago(now) # 0 /\ Ago(now) - 1 \in Instants
      BY <1>3, <2>1 DEF Ago
    <3>2. passed[Ago(now) - 1] = passed[now]
      BY <1>1, <1>3, <2>1, <3>1 DEF WindowCounted
    <3> QED
      BY <3>1, <3>2 DEF Before
  <2>3. Rested' /\ WindowCounted'
    BY <2>1, <2>2 DEF Rested, WindowCounted, Before, Ago
  <2> QED
    BY <1>2, <1>5, <2>1, <2>3 DEF WindowInv
<1>10. CASE Disconnect
  <2>1. UNCHANGED <<now, passed>> /\ ~connected' /\ entry' = Absent
    BY <1>10 DEF Disconnect
  <2> QED
    BY <1>2, <1>5, <2>1 DEF WindowInv, Rested, WindowCounted, Absent
<1> QED
  BY <1>6, <1>7, <1>8, <1>9, <1>10 DEF RateNext

\* isClearRateLimited and isStrokeRateLimited: in any interval of a window's length, wherever
\* it starts, and whatever the sweep has dropped, a socket gets at most twice the limit
\* through.
THEOREM AtMostTwice == RateSpec => []SlidingBound
<1>1. RateInit => WindowInv
  BY InitWindow
<1>2. WindowInv /\ [RateNext]_rateVars => WindowInv'
  BY WindowStep
<1>3. WindowInv => SlidingBound
  BY DEF WindowInv
<1> QED
  BY <1>1, <1>2, <1>3, PTL DEF RateSpec

=============================================================================
