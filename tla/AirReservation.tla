--------------------------- MODULE AirReservation ---------------------------
(***************************************************************************)
(* user/tst_air.c, tst_air_clerk.c and tst_air_customer.c: customers queue *)
(* up for clerks who book seats on two flights.  Customers of type 3 want  *)
(* a seat on both flights or none.  Customers are numbered from 1.         *)
(***************************************************************************)
EXTENDS Programs, FiniteSets

CONSTANTS Clerk, Customer,   \* the threads that run the clerks and the customers
          Mixes,             \* sequences of the types of the customers
          Tickets            \* pairs of numbers of tickets of the two flights

ASSUME AirAssumption ==
  /\ Clerk \subseteq Slaves /\ Clerk # {}
  /\ Customer \subseteq Slaves \ Clerk
  /\ Mixes \subseteq [1..Cardinality(Customer) -> 1..3]
  /\ Tickets \subseteq Nat \X Nat

NumOfCustomers == Cardinality(Customer)
CustId == 1..NumOfCustomers
Flight == {1, 2}

\* The flights a customer wants, in the order a clerk locks them.
Wanted(c) == IF shared.flightType[c] = 3 THEN <<1, 2>> ELSE <<shared.flightType[c]>>

flightCS(f) == <<"flightCS", f>>
cust_finished(c) == <<"cust_finished", c>>
Named(name) == <<name, 0>>

AirSem == {flightCS(f) : f \in Flight} \cup {cust_finished(c) : c \in CustId}
            \cup {Named("custCounterCS"), Named("custQueueCS"), Named("clerk"),
                  Named("cust_ready"), Named("custTerminated")}

InitialPermits(s) ==
  CASE s[1] \in {"flightCS", "custCounterCS", "custQueueCS"} -> 1
    [] s[1] = "clerk" -> Cardinality(Clerk)
    [] OTHER -> 0

AirInit ==
  \E tickets \in Tickets, types \in Mixes :
    Prepared([s \in AirSem |-> InitialPermits(s)],
             [flightType |-> types, custCounter |-> 1, queue |-> [c \in CustId |-> 0], queue_in |-> 1,
              queue_out |-> 1, seats |-> tickets, booked |-> [f \in Flight |-> <<>>],
              tickets |-> tickets],
             [t \in Thread |-> IF t = Master THEN "terminated"
                               ELSE IF t \in Clerk THEN "ready"
                               ELSE IF t \in Customer THEN "arrive" ELSE "done"])

-----------------------------------------------------------------------------
CustomerStep(t) ==
  \/ At(t, "arrive") /\ sys_waitSemaphore(t, Named("custCounterCS"), "number")
  \/ At(t, "number") /\ Read(t, shared.custCounter, "count")
  \/ At(t, "count") /\ Write(t, "custCounter", shared.custCounter + 1, "numbered")
  \/ At(t, "numbered") /\ sys_signalSemaphore(t, Named("custCounterCS"), "clerk")
  \/ At(t, "clerk") /\ sys_waitSemaphore(t, Named("clerk"), "lock")
  \/ At(t, "lock") /\ sys_waitSemaphore(t, Named("custQueueCS"), "enqueue")
  \/ /\ At(t, "enqueue")
     /\ Write(t, "queue", [shared.queue EXCEPT ![shared.queue_in] = local[t]], "advance")
  \/ At(t, "advance") /\ Write(t, "queue_in", shared.queue_in + 1, "unlock")
  \/ At(t, "unlock") /\ sys_signalSemaphore(t, Named("custQueueCS"), "announce")
  \/ At(t, "announce") /\ sys_signalSemaphore(t, Named("cust_ready"), "await")
  \/ At(t, "await") /\ sys_waitSemaphore(t, cust_finished(local[t]), "leave")
  \/ At(t, "leave") /\ sys_signalSemaphore(t, Named("custTerminated"), "done")

-----------------------------------------------------------------------------
Dequeue(t) ==
  \/ At(t, "ready") /\ sys_waitSemaphore(t, Named("cust_ready"), "lock")
  \/ At(t, "lock") /\ sys_waitSemaphore(t, Named("custQueueCS"), "dequeue")
  \/ At(t, "dequeue") /\ Read(t, shared.queue[shared.queue_out], "advance")
  \/ At(t, "advance") /\ Write(t, "queue_out", shared.queue_out + 1, "unlock")
  \/ At(t, "unlock") /\ sys_signalSemaphore(t, Named("custQueueCS"), "flight")

LockFlights(t) ==
  LET wanted == Wanted(local[t])
  IN  \/ /\ At(t, "flight")
         /\ sys_waitSemaphore(t, flightCS(wanted[1]),
                              IF Len(wanted) = 2 THEN "second" ELSE "look")
      \/ At(t, "second") /\ sys_waitSemaphore(t, flightCS(wanted[2]), "look")

MutOneFlightIsEnough(c) == \E f \in ToSet(Wanted(c)) : shared.seats[f] > 0

Available(c) == \A f \in ToSet(Wanted(c)) : shared.seats[f] > 0

\* The critical section reads what is left and then writes the booking.
Book(t) ==
  LET mine == ToSet(Wanted(local[t]))
  IN  \/ At(t, "look") /\ Jump(t, IF Available(local[t]) THEN "book" ELSE "release")
      \/ /\ At(t, "book")
         /\ shared' =
              [shared EXCEPT
                 !.seats = [f \in Flight |-> IF f \in mine THEN @[f] - 1 ELSE @[f]],
                 !.booked = [f \in Flight |-> IF f \in mine THEN Append(@[f], local[t])
                                              ELSE @[f]]]
         /\ Go(t, "release")
         /\ UNCHANGED <<permits, waiting, local>>

MutFirstNotReleased(t) ==
  /\ At(t, "release")
  /\ sys_signalSemaphore(t, flightCS(Last(Wanted(local[t]))), "report")

ReleaseFlights(t) ==
  LET wanted == Wanted(local[t])
  IN  \/ /\ At(t, "release")
         /\ sys_signalSemaphore(t, flightCS(Last(wanted)),
                                IF Len(wanted) = 2 THEN "first" ELSE "report")
      \/ At(t, "first") /\ sys_signalSemaphore(t, flightCS(1), "report")

Report(t) ==
  \/ At(t, "report") /\ sys_signalSemaphore(t, cust_finished(local[t]), "free")
  \/ At(t, "free") /\ sys_signalSemaphore(t, Named("clerk"), "ready")

ClerkStep(t) == Dequeue(t) \/ LockFlights(t) \/ Book(t) \/ ReleaseFlights(t) \/ Report(t)

-----------------------------------------------------------------------------
Value(s) == permits[s] - Len(waiting[s])

HasSeat(f, c) == c \in ToSet(shared.booked[f])

\* What may lie behind the entries of the lists: smalloc clears no memory.
Unwritten == {rest \in [Flight -> SUBSET CustId] :
                \A f \in Flight : Cardinality(rest[f]) <= shared.seats[f]}

\* The scan goes on behind the entries, to the end of the list.
find(f, c, rest) == HasSeat(f, c) \/ c \in rest[f]

AllBooked(rest) == \A c \in CustId : \A f \in ToSet(Wanted(c)) : find(f, c, rest)

ExpectedValue(s) == IF s[1] = "cust_ready" THEN 0 - Cardinality(Clerk) ELSE InitialPermits(s)

(***************************************************************************)
(* env_sleep(1500) is taken to be long enough for the clerks to be waiting *)
(* for customers again; the program relies on it when it reads the value   *)
(* of clerk.                                                               *)
(***************************************************************************)
ClerksRest == Clerk \subseteq ToSet(waiting[Named("cust_ready")])

AirMaster(t) ==
  \/ /\ At(t, "terminated") /\ local[t] < NumOfCustomers
     /\ Wait(t, Named("custTerminated"))
     /\ local' = [local EXCEPT ![t] = @ + 1]
     /\ UNCHANGED <<pc, shared>>
  \/ At(t, "terminated") /\ local[t] = NumOfCustomers /\ ClerksRest /\ Jump(t, "check")
  \/ /\ At(t, "check")
     /\ \E rest \in Unwritten :
          Jump(t, IF AllBooked(rest) /\ \A s \in AirSem : Value(s) = ExpectedValue(s)
                  THEN "done" ELSE "panic")

AirStep(t) == \/ t = Master /\ AirMaster(t)
              \/ t \in Clerk /\ ClerkStep(t)
              \/ t \in Customer /\ CustomerStep(t)

-----------------------------------------------------------------------------
(* Properties.                                                             *)

Unserved(c) == \A f \in ToSet(Wanted(c)) : ~HasSeat(f, c)

(***************************************************************************)
(* Seats are never sold twice, to the wrong customer, or from the air: a   *)
(* flight's list has one entry per sold seat, all different.  A customer   *)
(* of type 3 has both flights or none, except while a clerk is between the *)
(* two (the two bookings are one step here).  A customer goes away without *)
(* a booking only when a flight he wanted is full, and the master panics   *)
(* only then: never because two clerks disturbed each other.               *)
(***************************************************************************)
BookingsRight ==
  /\ \A f \in Flight :
       /\ shared.seats[f] + Len(shared.booked[f]) = shared.tickets[f]
       /\ shared.seats[f] >= 0
       /\ IsInjective(shared.booked[f])
       /\ \A c \in ToSet(shared.booked[f]) : f \in ToSet(Wanted(c))
  /\ \A c \in CustId : Unserved(c) \/ \A f \in ToSet(Wanted(c)) : HasSeat(f, c)
  /\ pc[Master] \in {"done", "panic"} =>
       /\ \A c \in CustId : Unserved(c) => ~Available(c)
       /\ \A s \in AirSem : Value(s) = ExpectedValue(s)

\* The flights a customer wants stay locked until he is booked, so a master
\* that panics has too few tickets, and every customer has gone home.
AirEnds == \/ pc[Master] = "panic" /\ \E c \in CustId : Unserved(c)
           \/ pc[Master] = "done"
=============================================================================
