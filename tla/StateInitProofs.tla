-------------------------- MODULE StateInitProofs ---------------------------
(***************************************************************************)
(* TemporariesFreed, StateHasProducer, ReleasedOnce and OnlyFirstLeft of   *)
(* StateInit hold for properties files of any length and content, any      *)
(* scope and any limit on the properties: at each point of state_init()    *)
(* what the call owns is known.                                            *)
(***************************************************************************)
EXTENDS StateInit, TLAPS

Points == {"main", "exists", "count", "copy", "retrieve", "conf", "mutex", "topic",
           "returned", "exit"}

(* The command line and the files are those main() starts with. *)
Inputs ==
    /\ scope \in Scopes
    /\ files \in [named : NamedFiles, default : DefaultFiles]

(* Where control is, and what ret means there. *)
Control ==
    /\ pc \in Points
    /\ call \in 0 .. 2
    /\ call = 0 <=> pc = "main"
    /\ pc \in {"main", "exists", "count", "copy"} => ret = "none"
    /\ pc \in {"retrieve", "conf", "mutex", "topic"} => ret \in {"OK"} \cup ReadErrors
    /\ pc \in {"returned", "exit"} => ret \in {"EFILE", "ERROR", "EARG", "SUCCESS"}
    /\ pc = "exit" => call = 2

(* The first pass of readconf: there are bytes to copy if and only if there *)
(* are pairs, and propsbuf is allocated if and only if there are bytes.     *)
Counts ==
    /\ props \in Nat /\ outsz \in Nat /\ pos \in Nat \ {0}
    /\ pc \in {"count", "copy"} => (props = 0 <=> outsz = 0)
    /\ pc = "copy" => outsz # 0

(* What the running or last call owns. *)
Holds ==
    CASE pc = "main"     -> {}
      [] pc = "exists"   -> {"propsfile", "topicpt"}
      [] pc = "count"    -> {"propsfile", "topicpt", "cpos"}
      [] pc = "copy"     -> {"propsfile", "topicpt", "cpos", "propsbuf"}
      [] pc = "retrieve" -> {"topicpt"} \cup PropsBuf
      [] pc = "conf"     -> {"topicpt", "client", "conf"} \cup PropsBuf
      [] pc = "mutex"    -> {"topicpt", "client", "rk"} \cup PropsBuf
      [] pc = "topic"    -> {"topicpt", "client", "rk"}
      [] pc = "returned" -> IF ret \in {"SUCCESS", "EARG"} THEN {"client", "rk"} ELSE {}
      [] pc = "exit"     -> IF ret = "EARG" THEN {"client", "rk"} ELSE {}

Owned ==
    /\ live \subseteq (1 .. call) \X Objects
    /\ \A o \in Objects : <<call, o>> \in live <=> o \in Holds

Site == [producer : 0 .. 2, topic : BOOLEAN, partition : Int, min : Int, max : Int]

(* The producer of the first call during the second: in the state or, once  *)
(* replaced there, only in memory.                                          *)
Earlier ==
    /\ call = 2 => \A o \in Objects : <<1, o>> \in live => o \in {"client", "rk"}
    /\ state \in Site
    /\ pc # "exit" => (state.producer = call <=> (pc = "main" \/ (pc # "mutex" /\ "rk" \in Holds)))
    /\ state.producer # call /\ state.producer # 0 =>
           /\ state.producer = 1 /\ call = 2
           /\ <<1, "client">> \in live /\ <<1, "rk">> \in live

(* Only conf is ever released without being owned, by the exit of create    *)
(* after pthread_mutex_init() has failed.                                   *)
Misuse ==
    /\ misused \subseteq (1 .. call) \X {"conf"}
    /\ misused # {} => MutexInitFails
    /\ <<call, "conf">> \in misused => pc \in {"returned", "exit"} /\ ret = "ERROR"

Inv == Inputs /\ Control /\ Counts /\ Owned /\ Earlier /\ Misuse

(* main() starts with an empty state. *)
LEMMA InitInv == Init => Inv
<1> SUFFICES ASSUME Init PROVE Inv
  OBVIOUS
<1>1. Inputs
  BY Zenon DEF Init, Inputs
<1>2. pc = "main" /\ call = 0 /\ ret = "none" /\ live = {} /\ misused = {}
  BY Zenon DEF Init
<1>3. pos = 1 /\ props = 0 /\ outsz = 0
  BY Zenon DEF Init
<1>4. state = [producer |-> 0, topic |-> FALSE, partition |-> 0, min |-> 0, max |-> 0]
  BY Zenon DEF Init
<1>5. Control /\ Counts
  BY <1>2, <1>3 DEF Control, Points, Counts
<1>6. Holds = {}
  BY <1>2 DEF Holds
<1>7. Owned /\ Misuse
  BY <1>2, <1>6 DEF Owned, Misuse
<1>8. Earlier
  BY <1>2, <1>4, <1>6, SMTT(30) DEF Earlier, Site
<1> QED
  BY <1>1, <1>5, <1>7, <1>8 DEF Inv

(* Each step leads from a point of control to the next with a result that *)
(* fits, and the command line and the files stay.                          *)
LEMMA ControlStep ==
    ASSUME Control, Inputs, [Next]_vars
    PROVE  Control' /\ Inputs'
<1> USE DEF Control, Inputs, Points, ReadErrors
<1>1. CASE Call
  BY <1>1 DEF Call
<1>2. CASE FileMissing
  BY <1>2 DEF FileMissing, Free, Return
<1>3. CASE OpenFails
  BY <1>3 DEF OpenFails, Free, ReadconfReturns
<1>4. CASE Open
  BY <1>4, ZenonT(40) DEF Open
<1>5. CASE Header
  BY <1>5 DEF Header
<1>6. CASE CountPair
  BY <1>6 DEF CountPair, Free, ReadconfReturns
<1>7. CASE CountEnds
  BY <1>7 DEF CountEnds, Free, ReadconfReturns
<1>8. CASE CopyPair
  BY <1>8 DEF CopyPair, Breaks, Free, ReadconfReturns
<1>9. CASE CopyEnds
  BY <1>9 DEF CopyEnds, Breaks, Free, ReadconfReturns
<1>10. CASE Create
  BY <1>10 DEF Create
<1>11. CASE ConfSet
  BY <1>11 DEF ConfSet
<1>12. CASE ConfSetFails
  BY <1>12 DEF ConfSetFails, CreateFails, Free, Return
<1>13. CASE KafkaNew
  BY <1>13 DEF KafkaNew
<1>14. CASE KafkaNewFails
  BY <1>14 DEF KafkaNewFails, CreateFails, Free, Return
<1>15. CASE MutexFails
  BY <1>15 DEF MutexFails, CreateFails, Free, Return
<1>16. CASE Created
  BY <1>16 DEF Created, Free
<1>17. CASE SetSite
  BY <1>17 DEF SetSite, Free, Return
<1>18. CASE Exit
  BY <1>18 DEF Exit
<1>19. CASE Uninit
  BY <1>19 DEF Uninit, DestroyProducer
<1>20. CASE Terminated
  BY <1>20 DEF Terminated, vars
<1>21. CASE UNCHANGED vars
  BY <1>21 DEF vars
<1> QED
  BY <1>1, <1>2, <1>3, <1>4, <1>5, <1>6, <1>7, <1>8, <1>9, <1>10, <1>11,
     <1>12, <1>13, <1>14, <1>15, <1>16, <1>17, <1>18, <1>19, <1>20, <1>21 DEF Next

(* A pair that readconf reads takes at least one byte. *)
LEMMA LineBytes ==
    ASSUME Inputs, IsPair, pos \in Nat \ {0}
    PROVE  Line.bytes \in Nat \ {0}
<1> DEFINE Lines == [kind : {"section", "pair"}, name : STRING, bytes : Nat]
<1>1. File \in NamedFiles \cup DefaultFiles
  BY DEF Inputs, File, PathOf
<1>2. File.lines \in Seq(Lines)
  BY <1>1, StateInitAssumption, ZenonT(40)
<1> HIDE DEF Lines
<1>3. pos \in 1 .. Len(File.lines)
  BY <1>2 DEF IsPair, EndOfFile
<1>4. Line \in Lines
  BY <1>2, <1>3 DEF Line
<1>5. Line.bytes \in Nat
  BY <1>4 DEF Lines
<1>6. Line.bytes > 0
  BY <1>1, <1>3, StateInitAssumption, ZenonT(40) DEF IsPair, Line
<1> QED
  BY <1>5, <1>6

(* The first pass counts pairs and bytes together. *)
LEMMA CountsStep ==
    ASSUME Counts, Inputs, [Next]_vars
    PROVE  Counts'
<1> USE DEF Counts, fileVars
<1>1. CASE Call
  BY <1>1 DEF Call
<1>2. CASE FileMissing
  BY <1>2 DEF FileMissing, Free, Return
<1>3. CASE OpenFails
  BY <1>3 DEF OpenFails, Free, ReadconfReturns
<1>4. CASE Open
  <2>1. pos' = 1 /\ props' = 0 /\ outsz' = 0 /\ pc' = "count"
    BY <1>4, Zenon DEF Open
  <2> QED
    BY <2>1
<1>5. CASE Header
  BY <1>5 DEF Header
<1>6. CASE CountPair
  BY <1>6, LineBytes DEF CountPair, Free, ReadconfReturns
<1>7. CASE CountEnds
  BY <1>7 DEF CountEnds, Free, ReadconfReturns
<1>8. CASE CopyPair
  BY <1>8 DEF CopyPair, Breaks, Free, ReadconfReturns
<1>9. CASE CopyEnds
  BY <1>9 DEF CopyEnds, Breaks, Free, ReadconfReturns
<1>10. CASE Create
  BY <1>10 DEF Create
<1>11. CASE ConfSet
  BY <1>11 DEF ConfSet
<1>12. CASE ConfSetFails
  BY <1>12 DEF ConfSetFails, CreateFails, Free, Return
<1>13. CASE KafkaNew
  BY <1>13 DEF KafkaNew
<1>14. CASE KafkaNewFails
  BY <1>14 DEF KafkaNewFails, CreateFails, Free, Return
<1>15. CASE MutexFails
  BY <1>15 DEF MutexFails, CreateFails, Free, Return
<1>16. CASE Created
  BY <1>16 DEF Created, Free
<1>17. CASE SetSite
  BY <1>17 DEF SetSite, Free, Return
<1>18. CASE Exit
  BY <1>18 DEF Exit
<1>19. CASE Uninit
  BY <1>19 DEF Uninit, DestroyProducer
<1>20. CASE Terminated
  BY <1>20 DEF Terminated, vars
<1>21. CASE UNCHANGED vars
  BY <1>21 DEF vars
<1> QED
  BY <1>1, <1>2, <1>3, <1>4, <1>5, <1>6, <1>7, <1>8, <1>9, <1>10, <1>11,
     <1>12, <1>13, <1>14, <1>15, <1>16, <1>17, <1>18, <1>19, <1>20, <1>21 DEF Next

(* state_uninit() releases the producer of the call that succeeded. *)
LEMMA UninitOwn ==
    ASSUME Earlier, Uninit
    PROVE  Free({"client", "rk"})
<1>1. pc = "returned" /\ Holds = {"client", "rk"}
  BY SMTT(30) DEF Uninit, Holds
<1>2. state.producer = call
  BY <1>1, SMTT(30) DEF Earlier
<1> QED
  BY <1>2, Zenon DEF Uninit, DestroyProducer, Free, Mine

(* Releasing what Holds loses keeps Owned. *)
LEMMA FreeOwned ==
    ASSUME NEW S, Owned, Free(S), call' = call, Holds' = Holds \ S
    PROVE  Owned'
  BY DEF Owned, Free, Mine

(* So does allocating what it gains. *)
LEMMA TakeOwned ==
    ASSUME NEW S, S \subseteq Objects, Owned, call \in 1 .. 2,
           live' = live \cup Mine(S), call' = call, Holds' = Holds \cup S
    PROVE  Owned'
  BY DEF Owned, Mine

(* A second pass that breaks off releases the buffer. *)
LEMMA BreaksOwned ==
    ASSUME Owned, Breaks, pc = "copy", call' = call
    PROVE  Owned'
<1>1. Free({"propsbuf", "cpos", "propsfile"}) /\ pc' = "retrieve" /\ ret' = "EBREAK"
  BY Zenon DEF Breaks, ReadconfReturns
<1>2. Holds' = Holds \ {"propsbuf", "cpos", "propsfile"}
  BY <1>1 DEF Holds, PropsBuf, NumProps
<1> QED
  BY <1>1, <1>2, FreeOwned

(* What the call owns is what Holds says at each point. *)
LEMMA OwnedStep ==
    ASSUME Control, Counts, Owned, Earlier, [Next]_vars
    PROVE  Owned'
<1> USE DEF fileVars
<1>1. CASE Call
  <2>1. call \in 0 .. 1 /\ call' = call + 1 /\ pc' = "exists"
    BY <1>1 DEF Call, Control
  <2>2. live' = live \cup {call'} \X {"propsfile", "topicpt"}
    BY <1>1 DEF Call
  <2>3. Holds' = {"propsfile", "topicpt"}
    BY <2>1 DEF Holds
  <2>4. \A o \in Objects : <<call', o>> \notin live
    BY <2>1 DEF Owned
  <2>5. live' \subseteq (1 .. call') \X Objects
    BY <2>1, <2>2 DEF Owned, Objects
  <2> QED
    BY <2>2, <2>3, <2>4, <2>5 DEF Owned
<1>2. CASE FileMissing
  BY <1>2 DEF FileMissing, Free, Return, Owned, Holds, Objects, PropsBuf, NumProps, Mine
<1>3. CASE OpenFails
  BY <1>3 DEF OpenFails, Free, ReadconfReturns, Owned, Holds, Objects, PropsBuf, NumProps, Mine
<1>4. CASE Open
  BY <1>4, ZenonT(40) DEF Open, Owned, Holds, Objects, PropsBuf, NumProps, Mine
<1>5. CASE Header
  BY <1>5, ZenonT(40) DEF Header, Owned, Holds, Objects, PropsBuf, NumProps, Mine
<1>6. CASE CountPair
  <2>1. CASE TooMany(props')
    <3>1. Free({"cpos", "propsfile"}) /\ call' = call
      BY <1>6, <2>1, Zenon DEF CountPair
    <3>2. pc = "count" /\ pc' = "retrieve" /\ ret' = "EPROPS"
      BY <1>6, <2>1, Zenon DEF CountPair, ReadconfReturns
    <3>3. Holds' = Holds \ {"cpos", "propsfile"}
      BY <3>2 DEF Holds, PropsBuf, NumProps
    <3> QED
      BY <3>1, <3>3, FreeOwned
  <2>2. CASE ~TooMany(props')
    <3>1. live' = live /\ call' = call /\ pc = "count" /\ pc' = "count"
      BY <1>6, <2>2, Zenon DEF CountPair
    <3> QED
      BY <3>1 DEF Owned, Holds
  <2> QED
    BY <2>1, <2>2
<1>7. CASE CountEnds
  <2>1. CASE outsz = 0
    <3>1. Free({"cpos", "propsfile"}) /\ call' = call
      BY <1>7, <2>1, Zenon DEF CountEnds
    <3>2. pc = "count" /\ pc' = "retrieve" /\ props' = props
      BY <1>7, <2>1, Zenon DEF CountEnds, ReadconfReturns
    <3>3. Holds' = Holds \ {"cpos", "propsfile"}
      BY <2>1, <3>2 DEF Holds, PropsBuf, NumProps, Counts
    <3> QED
      BY <3>1, <3>3, FreeOwned
  <2>2. CASE outsz # 0
    <3>1. live' = live \cup Mine({"propsbuf"}) /\ call' = call
      BY <1>7, <2>2, Zenon DEF CountEnds
    <3>2. pc = "count" /\ pc' = "copy"
      BY <1>7, <2>2, Zenon DEF CountEnds
    <3>3. Holds' = Holds \cup {"propsbuf"} /\ call \in 1 .. 2
      BY <3>2 DEF Holds, Control
    <3> QED
      BY <3>1, <3>3, TakeOwned DEF Objects
  <2> QED
    BY <2>1, <2>2
<1>8. CASE CopyPair
  <2>1. CASE Wanted /\ Bytes(outbuf) + Line.bytes > outsz
    BY <1>8, <2>1, BreaksOwned DEF CopyPair
  <2>2. CASE ~(Wanted /\ Bytes(outbuf) + Line.bytes > outsz)
    <3>1. live' = live /\ call' = call /\ pc = "copy" /\ pc' = "copy"
      BY <1>8, <2>2, Zenon DEF CopyPair
    <3> QED
      BY <3>1 DEF Owned, Holds
  <2> QED
    BY <2>1, <2>2
<1>9. CASE CopyEnds
  <2>1. CASE Bytes(outbuf) # outsz
    BY <1>9, <2>1, BreaksOwned DEF CopyEnds
  <2>2. CASE Bytes(outbuf) = outsz
    <3>1. Free({"cpos", "propsfile"}) /\ call' = call
      BY <1>9, <2>2, Zenon DEF CopyEnds
    <3>2. pc = "copy" /\ pc' = "retrieve" /\ ret' = "OK" /\ props' = props
      BY <1>9, <2>2, Zenon DEF CopyEnds, ReadconfReturns
    <3>3. Holds' = Holds \ {"cpos", "propsfile"}
      BY <3>2 DEF Holds, PropsBuf, NumProps, Counts
    <3> QED
      BY <3>1, <3>3, FreeOwned
  <2> QED
    BY <2>1, <2>2
<1>10. CASE Create
  BY <1>10 DEF Create, Owned, Holds, Objects, PropsBuf, NumProps, Mine
<1>11. CASE ConfSet
  BY <1>11 DEF ConfSet, Owned, Holds, Objects, PropsBuf, NumProps, Mine
<1>12. CASE ConfSetFails
  BY <1>12 DEF ConfSetFails, CreateFails, Free, Return, Owned, Holds, Objects, PropsBuf, NumProps, Mine
<1>13. CASE KafkaNew
  BY <1>13 DEF KafkaNew, Owned, Holds, Objects, PropsBuf, NumProps, Mine
<1>14. CASE KafkaNewFails
  BY <1>14 DEF KafkaNewFails, CreateFails, Free, Return, Owned, Holds, Objects, PropsBuf, NumProps, Mine
<1>15. CASE MutexFails
  BY <1>15 DEF MutexFails, CreateFails, Free, Return, Owned, Holds, Objects, PropsBuf, NumProps, Mine
<1>16. CASE Created
  BY <1>16 DEF Created, Free, Owned, Holds, Objects, PropsBuf, NumProps, Mine
<1>17. CASE SetSite
  BY <1>17 DEF SetSite, Free, Return, Owned, Holds, Objects, PropsBuf, NumProps, Mine
<1>18. CASE Exit
  BY <1>18 DEF Exit, Owned, Holds, Objects, PropsBuf, NumProps, Mine
<1>19. CASE Uninit
  BY <1>19, UninitOwn DEF Uninit, Free, Owned, Holds, Objects, PropsBuf, NumProps, Mine
<1>20. CASE Terminated
  BY <1>20 DEF Terminated, vars, Owned, Holds, Objects, PropsBuf, NumProps, Mine
<1>21. CASE UNCHANGED vars
  BY <1>21, ZenonT(40) DEF vars, Owned, Holds, PropsBuf, NumProps
<1> QED
  BY <1>1, <1>2, <1>3, <1>4, <1>5, <1>6, <1>7, <1>8, <1>9, <1>10, <1>11,
     <1>12, <1>13, <1>14, <1>15, <1>16, <1>17, <1>18, <1>19, <1>20, <1>21, SMTT(30) DEF Next

(* A step of the second call leaves what the first has left. *)
LEMMA EarlierLive ==
    ASSUME Control, Earlier, [Next]_vars, call = 2
    PROVE  call' = 2 /\ \A o : <<1, o>> \in live' <=> <<1, o>> \in live
<1> USE DEF Mine, Control
<1>1. CASE Call
  BY <1>1 DEF Call
<1>2. CASE FileMissing
  BY <1>2 DEF FileMissing, Free, Return
<1>3. CASE OpenFails
  BY <1>3 DEF OpenFails, Free, ReadconfReturns
<1>4. CASE Open
  <2>1. live' = live \cup Mine({"cpos"}) /\ call' = call
    BY <1>4, Zenon DEF Open
  <2> QED
    BY <2>1
<1>5. CASE Header
  BY <1>5 DEF Header
<1>6. CASE CountPair
  BY <1>6 DEF CountPair, Free, ReadconfReturns
<1>7. CASE CountEnds
  BY <1>7 DEF CountEnds, Free, ReadconfReturns
<1>8. CASE CopyPair
  BY <1>8 DEF CopyPair, Breaks, Free, ReadconfReturns
<1>9. CASE CopyEnds
  BY <1>9 DEF CopyEnds, Breaks, Free, ReadconfReturns
<1>10. CASE Create
  BY <1>10 DEF Create
<1>11. CASE ConfSet
  BY <1>11 DEF ConfSet
<1>12. CASE ConfSetFails
  BY <1>12 DEF ConfSetFails, CreateFails, Free, Return
<1>13. CASE KafkaNew
  BY <1>13 DEF KafkaNew
<1>14. CASE KafkaNewFails
  BY <1>14 DEF KafkaNewFails, CreateFails, Free, Return
<1>15. CASE MutexFails
  BY <1>15 DEF MutexFails, CreateFails, Free, Return
<1>16. CASE Created
  BY <1>16 DEF Created, Free
<1>17. CASE SetSite
  BY <1>17 DEF SetSite, Free, Return
<1>18. CASE Exit
  BY <1>18 DEF Exit
<1>19. CASE Uninit
  BY <1>19, UninitOwn DEF Uninit, Free
<1>20. CASE Terminated
  BY <1>20 DEF Terminated, vars
<1>21. CASE UNCHANGED vars
  BY <1>21 DEF vars
<1> QED
  BY <1>1, <1>2, <1>3, <1>4, <1>5, <1>6, <1>7, <1>8, <1>9, <1>10, <1>11,
     <1>12, <1>13, <1>14, <1>15, <1>16, <1>17, <1>18, <1>19, <1>20, <1>21 DEF Next

(* A sequence has a length and elements. *)
LEMMA SeqElements ==
    ASSUME NEW S, NEW q \in Seq(S)
    PROVE  Len(q) \in Nat /\ \A k \in 1 .. Len(q) : q[k] \in S
  OBVIOUS

(* The assignments to the site for one partition and for a range. *)
Assign(t, p, a, b) == [t EXCEPT !.partition = p, !.min = a, !.max = b]

AssignRange(t, a, b) == [t EXCEPT !.min = a, !.max = b]

(* They keep its type and its other fields. *)
LEMMA SiteUpdate ==
    ASSUME NEW t \in Site, NEW p \in Int, NEW a \in Int, NEW b \in Int
    PROVE  /\ Assign(t, p, a, b) \in Site
           /\ Assign(t, p, a, b).producer = t.producer
           /\ Assign(t, p, a, b).min = a
           /\ Assign(t, p, a, b).max = b
  BY ZenonT(40) DEF Site, Assign

(* The same for a range. *)
LEMMA SiteUpdateRange ==
    ASSUME NEW t \in Site, NEW a \in Int, NEW b \in Int
    PROVE  /\ AssignRange(t, a, b) \in Site
           /\ AssignRange(t, a, b).producer = t.producer
           /\ AssignRange(t, a, b).min = a
           /\ AssignRange(t, a, b).max = b
  BY ZenonT(40) DEF Site, AssignRange

(* The site as state_init() sets it, but for the topic. *)
NewSite == SetScope([scope |-> scope, site |-> state])

(* It has the scope that was asked for, and keeps producer and types. *)
LEMMA ScopeSet ==
    ASSUME Inputs, state \in Site
    PROVE  /\ Len(scope) \in {0, 1, 2}
           /\ NewSite \in Site
           /\ NewSite.producer = state.producer
           /\ Len(scope) = 0 => NewSite.min = 0 /\ NewSite.max = 0
           /\ Len(scope) = 1 => NewSite.min = scope[1] /\ NewSite.max = scope[1]
           /\ Len(scope) = 2 => NewSite.min = scope[1] /\ NewSite.max = scope[2]
<1>0. Len(scope) <= 2
  BY StateInitAssumption, Zenon DEF Inputs
<1>1. scope \in Seq(Int)
  BY StateInitAssumption, Zenon DEF Inputs
<1>2. \A k \in 1 .. Len(scope) : scope[k] \in Int
  BY <1>1, SeqElements, Zenon
<1>7. Len(scope) \in Nat
  BY <1>1, SeqElements, Zenon
<1>3. CASE Len(scope) = 0
  <2>1. NewSite = Assign(state, 0, 0, 0) /\ 0 \in Int
    BY <1>3 DEF NewSite, SetScope, Assign
  <2>2. NewSite \in Site /\ NewSite.producer = state.producer
        /\ NewSite.min = 0 /\ NewSite.max = 0
    BY <2>1, SiteUpdate
  <2> QED
    BY <1>3, <2>2
<1>4. CASE Len(scope) = 1
  <2>1. PICK p \in Int : p = scope[1]
    BY <1>2, <1>4
  <2>2. NewSite = Assign(state, p, p, p)
    BY <1>4, <2>1 DEF NewSite, SetScope, Assign
  <2>3. NewSite \in Site /\ NewSite.producer = state.producer
        /\ NewSite.min = p /\ NewSite.max = p
    BY <2>2, SiteUpdate
  <2> QED
    BY <1>4, <2>1, <2>3
<1>5. CASE Len(scope) = 2
  <2>1. PICK p \in Int, q \in Int : p = scope[1] /\ q = scope[2]
    BY <1>2, <1>5
  <2>2. NewSite = AssignRange(state, p, q)
    BY <1>5, <2>1 DEF NewSite, SetScope, AssignRange
  <2>3. NewSite \in Site /\ NewSite.producer = state.producer
        /\ NewSite.min = p /\ NewSite.max = q
    BY <2>2, SiteUpdateRange
  <2> QED
    BY <1>5, <2>1, <2>3
<1>6. Len(scope) \in {0, 1, 2}
  <2>1. \A n \in Nat : n <= 2 => n \in {0, 1, 2}
    BY SMTT(30)
  <2> QED
    BY <1>0, <1>7, <2>1, Zenon
<1> QED
  BY <1>3, <1>4, <1>5, <1>6, Zenon

(* state->producer is the producer of the running call once create has      *)
(* handed it out, and that of an earlier call, still alive, until then.      *)
LEMMA EarlierStep ==
    ASSUME Inputs, Control, Counts, Owned, Earlier, [Next]_vars
    PROVE  Earlier'
<1> USE DEF Earlier, Control
<1>1. CASE Call
  <2>1. pc \in {"main", "returned"} /\ call \in 0 .. 1 /\ call' = call + 1
    BY <1>1, SMTT(30) DEF Call
  <2>2. pc' = "exists" /\ state' = state /\ live \subseteq live'
    BY <1>1 DEF Call
  <2>3. Holds' = {"propsfile", "topicpt"}
    BY <2>2 DEF Holds
  <2>4. state.producer # 2
    BY <2>1 DEF Site
  <2>5. CASE pc = "main"
    BY <2>1, <2>2, <2>3, <2>5, SMTT(30)
  <2>6. CASE pc = "returned"
    <3>1. call = 1 /\ call' = 2
      BY <2>1, <2>6
    <3>2. \A o \in Objects : <<1, o>> \in live' => o \in Holds
      BY <1>1, <3>1 DEF Call, Owned
    <3>3. Holds \subseteq {"client", "rk"}
      BY <2>6 DEF Holds
    <3>4. state.producer = 1 => <<1, "client">> \in live /\ <<1, "rk">> \in live
      BY <2>6, <3>1 DEF Holds, Owned, Objects
    <3>5. state.producer # 0 => state.producer = 1
      BY <2>4 DEF Site
    <3> QED
      BY <2>2, <2>3, <2>4, <3>1, <3>2, <3>3, <3>4, <3>5, ZenonT(40)
  <2> QED
    BY <2>1, <2>5, <2>6, SMTT(30)
<1>2. CASE FileMissing
  BY <1>2, EarlierLive DEF FileMissing, Free, Return, Holds, PropsBuf, NumProps
<1>3. CASE OpenFails
  BY <1>3, EarlierLive DEF OpenFails, Free, ReadconfReturns, Holds, PropsBuf, NumProps
<1>4. CASE Open
  BY <1>4, EarlierLive, ZenonT(40) DEF Open, Holds, PropsBuf, NumProps
<1>5. CASE Header
  BY <1>5, EarlierLive DEF Header, Holds, PropsBuf, NumProps
<1>6. CASE CountPair
  BY <1>6, EarlierLive DEF CountPair, Free, ReadconfReturns, Holds, PropsBuf, NumProps
<1>7. CASE CountEnds
  BY <1>7, EarlierLive DEF CountEnds, Free, ReadconfReturns, Holds, PropsBuf, NumProps
<1>8. CASE CopyPair
  BY <1>8, EarlierLive DEF CopyPair, Breaks, Free, ReadconfReturns, Holds, PropsBuf, NumProps
<1>9. CASE CopyEnds
  BY <1>9, EarlierLive DEF CopyEnds, Breaks, Free, ReadconfReturns, Holds, PropsBuf, NumProps
<1>10. CASE Create
  BY <1>10, EarlierLive DEF Create, Holds, PropsBuf, NumProps
<1>11. CASE ConfSet
  BY <1>11, EarlierLive DEF ConfSet, Holds, PropsBuf, NumProps
<1>12. CASE ConfSetFails
  BY <1>12, EarlierLive, ZenonT(40) DEF ConfSetFails, CreateFails, Free, Return, Holds, PropsBuf, NumProps
<1>13. CASE KafkaNew
  BY <1>13, EarlierLive DEF KafkaNew, Holds, PropsBuf, NumProps
<1>14. CASE KafkaNewFails
  BY <1>14, EarlierLive, ZenonT(40) DEF KafkaNewFails, CreateFails, Free, Return, Holds, PropsBuf, NumProps
<1>15. CASE MutexFails
  BY <1>15, EarlierLive, ZenonT(40) DEF MutexFails, CreateFails, Free, Return, Holds, PropsBuf, NumProps
<1>16. CASE Created
  <2>1. pc = "mutex" /\ pc' = "topic" /\ call' = call /\ call \in 1 .. 2
    BY <1>16 DEF Created
  <2>2. state' = [state EXCEPT !.producer = call]
    BY <1>16 DEF Created
  <2>3. state' \in Site /\ state'.producer = call
    BY <2>1, <2>2 DEF Site
  <2>4. "rk" \in Holds'
    BY <2>1, SMTT(30) DEF Holds
  <2> QED
    BY <2>1, <2>3, <2>4, EarlierLive
<1>17. CASE SetSite
  <2>1. pc = "topic" /\ pc' = "returned" /\ call' = call /\ call \in 1 .. 2
    BY <1>17 DEF SetSite, Return
  <2>2. PICK topic \in BOOLEAN : /\ state' = [NewSite EXCEPT !.topic = topic]
                                 /\ ret' \in {"SUCCESS", "EARG"}
    BY <1>17, SMTT(30) DEF SetSite, Return, NewSite
  <2>3. NewSite \in Site /\ NewSite.producer = state.producer
    BY ScopeSet
  <2>4. state' \in Site /\ state'.producer = state.producer
    BY <2>2, <2>3 DEF Site
  <2>5. state.producer = call
    BY <2>1 DEF Holds
  <2>6. "rk" \in Holds'
    BY <2>1, <2>2 DEF Holds
  <2> QED
    BY <2>1, <2>4, <2>5, <2>6, EarlierLive, SMTT(30)
<1>18. CASE Exit
  BY <1>18, EarlierLive DEF Exit, Holds, PropsBuf, NumProps
<1>19. CASE Uninit
  BY <1>19, EarlierLive, UninitOwn, SMTT(30) DEF Uninit, Free, Holds, PropsBuf, NumProps
<1>20. CASE Terminated
  BY <1>20, EarlierLive, SMTT(30) DEF Terminated, vars, Holds, PropsBuf, NumProps
<1>21. CASE UNCHANGED vars
  BY <1>21, ZenonT(40) DEF vars, fileVars, Holds, PropsBuf, NumProps
<1> QED
  BY <1>1, <1>2, <1>3, <1>4, <1>5, <1>6, <1>7, <1>8, <1>9, <1>10, <1>11,
     <1>12, <1>13, <1>14, <1>15, <1>16, <1>17, <1>18, <1>19, <1>20, <1>21, ZenonT(40) DEF Next

(* Everything a step releases is owned, but conf by MutexFails. *)
LEMMA MisuseStep ==
    ASSUME Control, Counts, Owned, Earlier, Misuse, [Next]_vars
    PROVE  Misuse'
<1> USE DEF Misuse, Control
<1>1. CASE Call
  <2>1. call \in Int /\ call' = call + 1 /\ misused' = misused
    BY <1>1, SMTT(30) DEF Call
  <2>2. <<call', "conf">> \notin misused
    BY <2>1
  <2> QED
    BY <2>1, <2>2, SMTT(30)
<1>2. CASE FileMissing
  BY <1>2 DEF FileMissing, Free, Return, Holds, Objects, PropsBuf, NumProps, Mine, Owned
<1>3. CASE OpenFails
  BY <1>3 DEF OpenFails, Free, ReadconfReturns, Holds, Objects, PropsBuf, NumProps, Mine, Owned
<1>4. CASE Open
  BY <1>4, ZenonT(40) DEF Open, Holds, Objects, PropsBuf, NumProps, Mine, Owned
<1>5. CASE Header
  BY <1>5, ZenonT(40) DEF Header, Holds, Objects, PropsBuf, NumProps, Mine, Owned
<1>6. CASE CountPair
  BY <1>6 DEF CountPair, Free, ReadconfReturns, Holds, Objects, PropsBuf, NumProps, Mine, Owned
<1>7. CASE CountEnds
  BY <1>7 DEF CountEnds, Free, ReadconfReturns, Holds, Objects, PropsBuf, NumProps, Mine, Owned
<1>8. CASE CopyPair
  BY <1>8 DEF CopyPair, Breaks, Free, ReadconfReturns, Holds, Objects, PropsBuf, NumProps, Mine, Owned
<1>9. CASE CopyEnds
  BY <1>9 DEF CopyEnds, Breaks, Free, ReadconfReturns, Holds, Objects, PropsBuf, NumProps, Mine, Owned
<1>10. CASE Create
  BY <1>10 DEF Create, Holds, Objects, PropsBuf, NumProps, Mine, Owned
<1>11. CASE ConfSet
  BY <1>11 DEF ConfSet, Holds, Objects, PropsBuf, NumProps, Mine, Owned
<1>12. CASE ConfSetFails
  BY <1>12 DEF ConfSetFails, CreateFails, Free, Return, Holds, Objects, PropsBuf, NumProps, Mine, Owned
<1>13. CASE KafkaNew
  BY <1>13 DEF KafkaNew, Holds, Objects, PropsBuf, NumProps, Mine, Owned
<1>14. CASE KafkaNewFails
  BY <1>14, SMTT(30) DEF KafkaNewFails, CreateFails, Free, Return, Holds, Objects, PropsBuf, NumProps, Mine, Owned
<1>15. CASE MutexFails
  BY <1>15 DEF MutexFails, CreateFails, Free, Return, Holds, Objects, PropsBuf, NumProps, Mine, Owned
<1>16. CASE Created
  BY <1>16 DEF Created, Free, Holds, Objects, PropsBuf, NumProps, Mine, Owned
<1>17. CASE SetSite
  BY <1>17 DEF SetSite, Free, Return, Holds, Objects, PropsBuf, NumProps, Mine, Owned
<1>18. CASE Exit
  BY <1>18 DEF Exit, Holds, Objects, PropsBuf, NumProps, Mine, Owned
<1>19. CASE Uninit
  BY <1>19, UninitOwn DEF Uninit, Free, Holds, Objects, PropsBuf, NumProps, Mine, Owned
<1>20. CASE Terminated
  BY <1>20, SMTT(30) DEF Terminated, vars, Holds, Objects, PropsBuf, NumProps, Mine, Owned
<1>21. CASE UNCHANGED vars
  BY <1>21 DEF vars
<1> QED
  BY <1>1, <1>2, <1>3, <1>4, <1>5, <1>6, <1>7, <1>8, <1>9, <1>10, <1>11,
     <1>12, <1>13, <1>14, <1>15, <1>16, <1>17, <1>18, <1>19, <1>20, <1>21, ZenonT(40) DEF Next

(* The ownership at every point, in every reachable state. *)
LEMMA Invariance == Spec => []Inv
<1>1. Inv /\ [Next]_vars => Inv'
  BY ControlStep, CountsStep, OwnedStep, EarlierStep, MisuseStep, SMTT(30) DEF Inv
<1> QED
  BY InitInv, <1>1, PTL DEF Spec

(* On each of its exits kafkatools_producer_state_init() has freed its      *)
(* temporaries, and a failed create leaves nothing.                         *)
THEOREM SpecTemporariesFreed == Spec => []TemporariesFreed
<1>1. Inv => TemporariesFreed
  <2> SUFFICES ASSUME Inv, pc \in {"returned", "exit"}
               PROVE  /\ live \subseteq (1 .. 2) \X {"client", "rk"}
                      /\ ret \in {"ERROR", "EFILE"} => Mine(Objects) \cap live = {}
    BY DEF TemporariesFreed
  <2>1. Holds \subseteq {"client", "rk"} /\ (ret \in {"ERROR", "EFILE"} => Holds = {})
    BY SMTT(30) DEF Holds
  <2>2. call \in 1 .. 2 /\ live \subseteq (1 .. call) \X Objects
    BY DEF Inv, Owned, Control
  <2>3. \A o \in Objects : <<call, o>> \in live <=> o \in Holds
    BY SMTT(30) DEF Inv, Owned
  <2>4. call = 2 => \A o \in Objects : <<1, o>> \in live => o \in {"client", "rk"}
    BY SMTT(30) DEF Inv, Earlier
  <2>5. \A c \in 1 .. call, o \in Objects : <<c, o>> \in live => o \in {"client", "rk"}
    <3> TAKE c \in 1 .. call, o \in Objects
    <3>1. CASE c = call
      BY <2>1, <2>3, <3>1, ZenonT(40)
    <3>2. CASE c # call
      <4>1. call = 2 /\ c = 1
        BY <2>2, <3>2
      <4> QED
        BY <2>4, <4>1
    <3> QED
      BY <3>1, <3>2, SMTT(30)
  <2>6. live \subseteq (1 .. 2) \X {"client", "rk"}
    BY <2>2, <2>5
  <2>7. ret \in {"ERROR", "EFILE"} => Mine(Objects) \cap live = {}
    <3> SUFFICES ASSUME Holds = {}, NEW o \in Objects, <<call, o>> \in live
                 PROVE  FALSE
      BY <2>1, SMTT(30) DEF Mine
    <3> QED
      BY <2>3, SMTT(30)
  <2> QED
    BY <2>6, <2>7, SMTT(30)
<1> QED
  BY <1>1, Invariance, PTL

(* After every return of kafkatools_producer_state_init() a producer it has  *)
(* made is in the state, and the state has no producer that was freed.       *)
THEOREM SpecStateHasProducer == Spec => []StateHasProducer
<1>1. Inv => StateHasProducer
  <2> SUFFICES ASSUME Inv, pc = "returned"
               PROVE  /\ <<call, "client">> \in live <=> state.producer = call
                      /\ state.producer # 0 => {state.producer} \X {"client", "rk"} \subseteq live
    BY DEF StateHasProducer
  <2>1. <<call, "client">> \in live <=> state.producer = call
    BY DEF Inv, Owned, Earlier, Holds, Objects
  <2>2. state.producer = call => <<call, "rk">> \in live
    BY SMTT(30) DEF Inv, Owned, Earlier, Holds, Objects
  <2> QED
    BY <2>1, <2>2, SMTT(30) DEF Inv, Earlier
<1> QED
  BY <1>1, Invariance, PTL

(* Nothing is released twice or without being owned on any exit, but conf    *)
(* after a failed pthread_mutex_init().                                      *)
THEOREM SpecReleasedOnce == Spec => []ReleasedOnce
<1>1. Inv => ReleasedOnce
  BY DEF Inv, Misuse, ReleasedOnce, Control
<1> QED
  BY <1>1, Invariance, PTL

(* When main() ends well, nothing is left of what it allocated but the       *)
(* producer of its first state_init().                                       *)
THEOREM SpecOnlyFirstLeft == Spec => []OnlyFirstLeft
<1>1. Inv => OnlyFirstLeft
  <2> SUFFICES ASSUME Inv, pc = "exit", ret = "SUCCESS", NEW x \in live
               PROVE  x \in {1} \X {"client", "rk"}
    BY Zenon DEF OnlyFirstLeft
  <2>1. call = 2 /\ Holds = {}
    BY SMTT(30) DEF Inv, Control, Holds
  <2>2. PICK c \in 1 .. 2, o \in Objects : x = <<c, o>>
    BY <2>1, SMTT(30) DEF Inv, Owned
  <2>3. c # 2
    BY <2>1, <2>2, Zenon DEF Inv, Owned
  <2>4. c = 1
    BY <2>3
  <2>5. o \in {"client", "rk"}
    BY <2>1, <2>2, <2>4, Zenon DEF Inv, Earlier
  <2> QED
    BY <2>2, <2>4, <2>5, Zenon
<1> QED
  BY <1>1, Invariance, PTL
=============================================================================
