---------------------------- MODULE ConsoleProofs ----------------------------
(***************************************************************************)
(* Theorems about Console, for every number of ports and entries, every    *)
(* size of the log's buffer, every screen and every text: the choice of a  *)
(* console, the log up to the console's write, and what the devices show.  *)
(***************************************************************************)
EXTENDS Console, FiniteSetTheorems, SequenceTheorems, WellFoundedInduction, TLAPS

Boot == {"param", "ctors", "ports", "try"}
Running == {"run", "write", "emit", "fault"}

PcEntry == [name : {e.name : e \in CmdLines \cup Preferred}, index : Nat,
            addr : Nat \cup {NONE}, user : BOOLEAN]

ChoiceTypes ==
    /\ pc \in Boot \cup Running \cup {"wild"}
    /\ pcs \in Seq(PcEntry)
    /\ todo \subseteq Consoles
    /\ uart_ports \in [Slots -> {NONE} \cup (Nat \ {0})]
    /\ DOMAIN index = Consoles
    /\ active_console \in Consoles \cup {NOTHING}
    /\ con \in Consoles \cup {NOTHING}
    /\ user \in BOOLEAN
    /\ i \in Nat \ {0}

\* Which console is being tried, and what was decided before.
Order ==
    /\ pc = "param" => todo = Consoles
    /\ pc \in {"ports", "try"} => con \in todo
    /\ pc = "ports" => con = "ttyS" /\ user = TRUE
    /\ pc \in Running => todo = {}
    /\ active_console \notin todo
    /\ "ttyS" \in todo /\ pc # "wild" => index["ttyS"] = -1

\* What the search of register_console for a serial console has passed over.
Passed(j) == IF user THEN j < i /\ pcs[j].user ELSE j < i \/ pcs[j].user

\* While the serial console is tried no port there is has been passed over,
\* and if it was not enabled none was asked for.
NoneExists ==
    /\ "ttyS" \notin todo /\ active_console = NOTHING =>
          \A j \in DOMAIN pcs : ~Exists(pcs[j])
    /\ pc = "try" /\ con = "ttyS" =>
          \A j \in DOMAIN pcs : Passed(j) => ~Exists(pcs[j])

\* The console that is active, before "wild".
Ready ==
    pc # "wild" =>
        /\ active_console = "ttyS" => mcr = {index["ttyS"]} /\ Registered(index["ttyS"])
        /\ active_console = "tty" => 0 \in DOMAIN framebuffer /\ mcr = {}
        /\ active_console = NOTHING => mcr = {}

WildAsked ==
    pc = "wild" => \E j \in DOMAIN pcs : pcs[j].name \in {"ttyS", "uart"} /\ ~Exists(pcs[j])

\* What the choice of a console keeps.
ChoiceInv == ChoiceTypes /\ Order /\ NoneExists /\ Ready /\ WildAsked

LogTypes ==
    /\ buffer \in Seq(Chars) /\ rest \in Seq(Chars) /\ tail \in Seq(Chars)
    /\ em \in Seq(Chars) /\ text \in Seq(Chars) /\ out \in Seq(Chars)
    /\ line \in BOOLEAN

\* The provers find their way better when \o has a name of its own.
Cat(s, t) == s \o t

\* Everything logged is somewhere, in order: written, on its way, waiting in
\* the buffer, or still to be put there.
Joined == Cat(out, Cat(em, Cat(buffer, Cat(rest, tail))))
Conserved == active_console # NOTHING => text = Joined

\* Where a piece can be at each point of __iob_write; only a piece with lines
\* brings an end of line into the buffer, and it is flushed.
LogPhase ==
    /\ pc \notin {"write", "emit", "fault"} => rest = <<>> /\ tail = <<>> /\ line = FALSE
    /\ pc \notin {"emit", "fault"} => em = <<>>
    /\ pc \in Boot => text = <<>> /\ out = <<>> /\ buffer = <<>>
    /\ Len(buffer) <= BUF_SIZE
    /\ Lines(tail) = {}
    /\ line = FALSE => tail = <<>> /\ Lines(rest) = {} /\ Lines(buffer) = {}

LogInv == pc \in Boot \cup Running \cup {"wild"} /\ LogTypes /\ Conserved /\ LogPhase
-----------------------------------------------------------------------------
(* What the invariant needs to know of the constants and the operators.    *)

\* What is assumed of the constants, in short.
LEMMA Constants ==
    /\ UART_NR \in Nat \ {0} /\ SerialPorts \in Seq(Nat \ {0})
    /\ BUF_SIZE \in Nat \ {0} /\ MaxPiece \in Nat
    /\ NL \in Chars
    /\ NOTHING \notin Chars
BY ConsoleAssumption

\* A set of numbers has a first.
LEMMA FirstIn ==
    ASSUME NEW S \in SUBSET Nat, S # {}
    PROVE  First(S) \in S
<1>1. PICK s \in S : \A t \in S : ~(<<t, s>> \in OpToRel(<, Nat))
  BY NatLessThanWellFounded, WFMin
<1>2. \A t \in S : ~(t < s)
  BY <1>1 DEF OpToRel
<1>3. \A t \in S : s <= t
  BY <1>2
<1> QED BY <1>3 DEF First

\* A cleared screen has a first pixel.
LEMMA ClearedNonempty == 0 \in DOMAIN Cleared
<1>1. screen_height \in Nat \ {0} /\ pitch \in Nat \ {0}
  BY ConsoleAssumption
<1>2. screen_height * pitch \in Nat \ {0}
  BY <1>1, SMT
<1>3. 0 \in OnScreen
  BY <1>2 DEF PixelsOf, OnScreen
<1> QED BY <1>3 DEF Cleared

\* When an entry asks for something that is there.
LEMMA ExistsSpelled ==
    ASSUME NEW e
    PROVE  /\ e.name = "uart" =>
                 (Exists(e) <=> \E s \in Slots : Registered(s) /\ uart_ports[s] = e.addr)
           /\ e.name = "ttyS" => (Exists(e) <=> Registered(e.index))
           /\ Exists(e) => e.name \in {"uart", "ttyS"}
<1>1. CASE e.name = "uart"
  BY <1>1, Zenon DEF Exists
<1>2. CASE e.name = "ttyS"
  <2>1. e.name # "uart"
    BY <1>2
  <2> QED BY <1>2, <2>1, Zenon DEF Exists
<1>3. CASE e.name # "uart" /\ e.name # "ttyS"
  BY <1>3, Zenon DEF Exists
<1> QED BY <1>1, <1>2, <1>3

\* What Exists says depends on the ports only.
LEMMA ExistsPrimed ==
    ASSUME NEW e, uart_ports' = uart_ports
    PROVE  Exists(e)' <=> Exists(e)
BY Zenon DEF Exists, Registered, Slots
-----------------------------------------------------------------------------
(* The choice of a console.                                                *)

\* add_preferred_console keeps the type of the entries.
LEMMA AddedType ==
    ASSUME ChoiceTypes, NEW e \in CmdLines \cup Preferred, NEW u \in BOOLEAN
    PROVE  __add_preferred_console(e, u) \in Seq(PcEntry)
<1> DEFINE n == Len(pcs)
           f == [j \in DOMAIN pcs |-> IF u /\ j \in Same(e) THEN [pcs[j] EXCEPT !.user = TRUE] ELSE pcs[j]]
           r == [name |-> e.name, index |-> e.index, addr |-> e.addr, user |-> u]
<1>1. pcs \in Seq(PcEntry) /\ n \in Nat /\ DOMAIN pcs = 1 .. n /\ \A j \in 1 .. n : pcs[j] \in PcEntry
  BY LenProperties DEF ChoiceTypes
<1>2. r \in PcEntry
  BY ConsoleAssumption DEF PcEntry
<1>3. \A j \in 1 .. n : f[j] \in PcEntry
  BY <1>1 DEF PcEntry
<1>4. f \in Seq(PcEntry)
  <2>1. f \in [1 .. n -> PcEntry]
    BY <1>1, <1>3
  <2> QED BY <1>1, <2>1, SeqDef
<1>5. Append(pcs, r) \in Seq(PcEntry)
  BY <1>1, <1>2, AppendProperties
<1>6. __add_preferred_console(e, u) \in {f, pcs, Append(pcs, r)}
  <2>1. CASE Same(e) # {}
    BY <2>1, Zenon DEF __add_preferred_console
  <2>2. CASE Same(e) = {} /\ Len(pcs) = MAX_CONSOLE
    BY <2>2, Zenon DEF __add_preferred_console
  <2>3. CASE Same(e) = {} /\ Len(pcs) # MAX_CONSOLE
    BY <2>3, Zenon DEF __add_preferred_console
  <2> QED BY <2>1, <2>2, <2>3
<1> QED BY <1>1, <1>4, <1>5, <1>6

\* The entries are numbered from 1, and belong to the user or not.
LEMMA EntryTypes ==
    ASSUME ChoiceTypes
    PROVE  /\ Len(pcs) \in Nat /\ DOMAIN pcs = 1 .. Len(pcs)
           /\ \A j \in DOMAIN pcs : j \in Nat \ {0} /\ pcs[j].user \in BOOLEAN
<1>1. DOMAIN pcs = 1 .. Len(pcs) /\ Len(pcs) \in Nat /\ \A j \in 1 .. Len(pcs) : pcs[j] \in PcEntry
  BY LenProperties DEF ChoiceTypes
<1>2. \A e \in PcEntry : e.user \in BOOLEAN
  BY DEF PcEntry
<1>3. \A j \in DOMAIN pcs : pcs[j].user \in BOOLEAN
  BY <1>1, <1>2, Zenon
<1>4. \A j \in DOMAIN pcs : j \in Nat \ {0}
  BY <1>1
<1> QED BY <1>1, <1>3, <1>4, Zenon

\* A step that only moves on, or draws on the screen, keeps the choice.
LEMMA ChoiceKept ==
    ASSUME ChoiceInv, UNCHANGED choice, DOMAIN framebuffer' = DOMAIN framebuffer,
           pc \in Running \/ (pc = "ctors" /\ todo = {}), pc' \in Running
    PROVE  ChoiceInv'
<1> USE DEF ChoiceInv, choice, Running, Boot
<1>1. ChoiceTypes'
  BY DEF ChoiceTypes, Slots
<1>2. Order'
  BY DEF Order
<1>3. NoneExists'
  <2>1. \A j \in DOMAIN pcs : Exists(pcs[j])' <=> Exists(pcs[j])
    BY Zenon DEF Exists, Registered, Slots
  <2> QED BY <2>1 DEF NoneExists
<1>4. Ready'
  BY DEF Ready, Registered, Slots
<1>5. WildAsked'
  BY DEF WildAsked
<1> QED BY <1>1, <1>2, <1>3, <1>4, <1>5

\* The command line and the preferred consoles.
LEMMA ChoiceAdd ==
    ASSUME ChoiceInv,
           console_setup \/ \E e \in Preferred : add_preferred_console(e)
    PROVE  ChoiceInv'
<1> USE DEF ChoiceInv, Running, Boot
<1>1. pcs' \in Seq(PcEntry)
  <2>1. CASE console_setup
    <3>1. pcs' = pcs \/ \E e \in CmdLines : pcs' = __add_preferred_console(e, TRUE)
      BY <2>1, Zenon DEF console_setup
    <3> QED BY <3>1, AddedType DEF ChoiceTypes
  <2>2. CASE \E e \in Preferred : add_preferred_console(e)
    <3>1. PICK e \in Preferred : pcs' = __add_preferred_console(e, FALSE)
      BY <2>2, Zenon DEF add_preferred_console
    <3> QED BY <3>1, AddedType
  <2> QED BY <2>1, <2>2
<1>2. /\ pc \in {"param", "ctors"} /\ pc' = "ctors" /\ todo = Consoles
      /\ UNCHANGED <<todo, uart_ports, mcr, index, active_console, con, user, i, framebuffer>>
  BY Zenon DEF console_setup, add_preferred_console, Order, screen
<1> HIDE DEF ChoiceInv
<1>3. ChoiceTypes /\ Order /\ NoneExists /\ Ready
  BY DEF ChoiceInv
<1>4. ChoiceTypes'
  BY <1>1, <1>2, <1>3 DEF ChoiceTypes, Slots
<1>5. Order'
  BY <1>2, <1>3 DEF Order
<1>6. NoneExists'
  BY <1>2 DEF NoneExists, Consoles
<1>7. Ready'
  BY <1>2, <1>3 DEF Ready, Registered, Slots
<1>8. WildAsked'
  BY <1>2 DEF WildAsked
<1> QED BY <1>4, <1>5, <1>6, <1>7, <1>8 DEF ChoiceInv
\* A constructor begins, and the serial ports are registered.
LEMMA ChoicePorts ==
    ASSUME ChoiceInv,
           (\E c \in Consoles : console_init(c)) \/ RegisterPort \/ PortsDone
    PROVE  ChoiceInv'
<1>1. ChoiceTypes /\ Order /\ NoneExists /\ Ready
  BY DEF ChoiceInv
<1>2. ASSUME NEW c \in Consoles, console_init(c) PROVE ChoiceInv'
  <2>1. /\ pc = "ctors" /\ c \in todo
        /\ con' = c /\ i' = 1 /\ user' = TRUE
        /\ pc' = (IF c = "ttyS" THEN "ports" ELSE "try")
        /\ UNCHANGED <<pcs, todo, uart_ports, mcr, index, active_console, framebuffer>>
    BY <1>2, Zenon DEF console_init, screen
  <2>2. ChoiceTypes'
    BY <1>1, <2>1 DEF ChoiceTypes, Slots, Boot
  <2>3. Order'
    BY <1>1, <2>1 DEF Order, Consoles, Running
  <2>4. NoneExists'
    <3>1. \A j \in DOMAIN pcs : Exists(pcs[j])' <=> Exists(pcs[j])
      BY <2>1, Zenon DEF Exists, Registered, Slots
    <3>2. \A j \in DOMAIN pcs' : ~Passed(j)' \/ pc' # "try" \/ con' # "ttyS"
      BY <2>1
    <3> QED BY <1>1, <2>1, <3>1, <3>2 DEF NoneExists
  <2>5. Ready'
    BY <1>1, <2>1 DEF Ready, Registered, Slots
  <2>6. WildAsked'
    BY <2>1 DEF WildAsked
  <2> QED BY <2>2, <2>3, <2>4, <2>5, <2>6 DEF ChoiceInv
<1>3. CASE RegisterPort
  <2>1. /\ pc = "ports" /\ i <= Len(SerialPorts) /\ i' = i + 1
        /\ UNCHANGED <<pc, pcs, todo, mcr, index, active_console, con, user, framebuffer>>
    BY <1>3, Zenon DEF RegisterPort, screen
  <2>2. SerialPorts[i] \in Nat \ {0}
    <3>1. i \in 1 .. Len(SerialPorts)
      BY <1>1, <2>1, Constants, LenProperties DEF ChoiceTypes
    <3> QED BY <3>1, Constants, ElementOfSeq
  <2>3. uart_ports' = uart_ports \/ uart_ports' = [uart_ports EXCEPT ![First(FreeSlots)] = SerialPorts[i]]
    BY <1>3, Zenon DEF RegisterPort
  <2>4. /\ uart_ports' \in [Slots -> {NONE} \cup (Nat \ {0})]
        /\ \A s : Registered(s) => Registered(s)'
    <3>1. uart_ports \in [Slots -> {NONE} \cup (Nat \ {0})]
      BY <1>1 DEF ChoiceTypes
    <3>2. \A p \in Nat : p # NONE
      BY DEF NONE
    <3>3. /\ uart_ports' \in [Slots -> {NONE} \cup (Nat \ {0})]
          /\ \A s \in Slots : uart_ports[s] # NONE => uart_ports'[s] # NONE
      BY <2>2, <2>3, <3>1, <3>2
    <3> QED BY <3>3 DEF Registered, Slots
  <2>5. ChoiceTypes'
    BY <1>1, <2>1, <2>4 DEF ChoiceTypes, Slots
  <2>6. Order'
    BY <1>1, <2>1 DEF Order
  <2>7. NoneExists'
    BY <1>1, <2>1 DEF NoneExists, Order
  <2>8. Ready'
    BY <1>1, <2>1, <2>4 DEF Ready
  <2>9. WildAsked'
    BY <2>1 DEF WildAsked
  <2> QED BY <2>5, <2>6, <2>7, <2>8, <2>9 DEF ChoiceInv
<1>4. CASE PortsDone
  <2>1. /\ pc = "ports" /\ pc' = "try" /\ i' = 1
        /\ UNCHANGED <<pcs, todo, uart_ports, mcr, index, active_console, con, user, framebuffer>>
    BY <1>4, Zenon DEF PortsDone, screen
  <2>2. ChoiceTypes'
    BY <1>1, <2>1 DEF ChoiceTypes, Slots, Boot
  <2>3. Order'
    BY <1>1, <2>1 DEF Order, Running
  <2>4. NoneExists'
    <3>1. \A j \in DOMAIN pcs : j \in Nat \ {0}
      BY <1>1, LenProperties DEF ChoiceTypes
    <3>2. \A j \in DOMAIN pcs' : ~Passed(j)'
      BY <1>1, <2>1, <3>1 DEF Passed, Order
    <3> QED BY <1>1, <2>1, <3>2 DEF NoneExists, Order
  <2>5. Ready'
    BY <1>1, <2>1 DEF Ready, Registered, Slots
  <2>6. WildAsked'
    BY <2>1 DEF WildAsked
  <2> QED BY <2>2, <2>3, <2>4, <2>5, <2>6 DEF ChoiceInv
<1> QED BY <1>2, <1>3, <1>4

\* An entry that asks for a serial port there is suits the serial console.
LEMMA ExistingSuits ==
    ASSUME ChoiceInv, pc = "try", con = "ttyS", NEW e, Exists(e)
    PROVE  Matches(e) \/ Named(e)
<1>1. CASE e.name = "uart"
  <2>1. PICK s \in Slots : Registered(s) /\ uart_ports[s] = e.addr
    BY <1>1, ExistsSpelled
  <2> QED BY <1>1, <2>1 DEF Matches, Registered
<1>2. CASE e.name = "ttyS"
  BY <1>2 DEF Named, ChoiceInv, Order
<1> QED BY <1>1, <1>2, ExistsSpelled

\* The search of register_console goes on to the next entry.
LEMMA ChoiceSkip == ASSUME ChoiceInv, TrySkip PROVE ChoiceInv'
<1>1. ChoiceTypes /\ Order /\ NoneExists /\ Ready
  BY DEF ChoiceInv
<1>2. /\ pc = "try" /\ i <= Len(pcs) /\ i' = i + 1
      /\ pcs[i].user # user \/ (~Matches(pcs[i]) /\ ~Named(pcs[i]))
      /\ UNCHANGED <<pc, pcs, todo, uart_ports, mcr, index, active_console, con, user, framebuffer>>
  BY Zenon DEF TrySkip, screen
<1>3. ChoiceTypes'
  BY <1>1, <1>2 DEF ChoiceTypes, Slots
<1>4. Order'
  BY <1>1, <1>2 DEF Order
<1>5. NoneExists'
  <2>1. \A j \in DOMAIN pcs : Exists(pcs[j])' <=> Exists(pcs[j])
    BY <1>2, Zenon DEF Exists, Registered, Slots
  <2>2. \A j \in DOMAIN pcs : j \in Nat /\ pcs[j].user \in BOOLEAN
    BY <1>1, EntryTypes
  <2>3. ASSUME con = "ttyS", NEW j \in DOMAIN pcs, Passed(j)'
        PROVE  ~Exists(pcs[j])
    <3>1. CASE Passed(j)
      BY <1>1, <1>2, <2>3, <3>1 DEF NoneExists
    <3>2. CASE ~Passed(j)
      <4>1. j < i' => j = i \/ j < i
        BY <1>1, <1>2, <2>2 DEF ChoiceTypes
      <4>2. j = i /\ pcs[i].user = user
        <5>1. CASE user = TRUE
          BY <2>3, <3>2, <4>1, <5>1, <1>2 DEF Passed
        <5>2. CASE user = FALSE
          BY <2>2, <2>3, <3>2, <4>1, <5>2, <1>2 DEF Passed
        <5> QED BY <5>1, <5>2, <1>1 DEF ChoiceTypes
      <4> QED BY <1>2, <2>3, <4>2, ExistingSuits
    <3> QED BY <3>1, <3>2
  <2> QED BY <1>1, <1>2, <2>1, <2>3 DEF NoneExists
<1>6. Ready'
  BY <1>1, <1>2 DEF Ready, Registered, Slots
<1>7. WildAsked'
  BY <1>2 DEF WildAsked
<1> QED BY <1>3, <1>4, <1>5, <1>6, <1>7 DEF ChoiceInv
\* The search comes to its end, for the user's entries or for all; the screen
\* that could not be mapped ends it too.
LEMMA ChoiceNext ==
    ASSUME ChoiceInv, pc = "try", TryNext,
           UNCHANGED <<pcs, uart_ports, mcr, active_console, framebuffer>>,
           DOMAIN index' = Consoles, index'["ttyS"] = index["ttyS"],
           con = "ttyS" => i > Len(pcs)
    PROVE  ChoiceInv'
<1>1. ChoiceTypes /\ Order /\ NoneExists /\ Ready
  BY DEF ChoiceInv
<1>2. \A j \in DOMAIN pcs : Exists(pcs[j])' <=> Exists(pcs[j])
  BY Zenon DEF Exists, Registered, Slots
<1>3. \A j \in DOMAIN pcs : j \in Nat \ {0} /\ j <= Len(pcs) /\ pcs[j].user \in BOOLEAN
  BY <1>1, EntryTypes
<1>4. con = "ttyS" => \A j \in DOMAIN pcs : j < i
  BY <1>1, <1>3, EntryTypes DEF ChoiceTypes
<1>5. CASE user = TRUE
  <2>1. user' = FALSE /\ i' = 1 /\ UNCHANGED <<pc, todo, con>>
    BY <1>5, Zenon DEF TryNext
  <2>2. ChoiceTypes'
    <3>1. user' \in BOOLEAN
      BY <2>1, Zenon
    <3>2. i' \in Nat \ {0}
      BY <2>1
    <3> QED BY <1>1, <2>1, <3>1, <3>2, Zenon DEF ChoiceTypes
  <2>3. Order'
    BY <1>1, <2>1 DEF Order
  <2>4. NoneExists'
    <3>1. ASSUME con = "ttyS", NEW j \in DOMAIN pcs, Passed(j)' PROVE ~Exists(pcs[j])
      <4>1. pcs[j].user = TRUE
        BY <1>3, <2>1, <3>1 DEF Passed
      <4>2. Passed(j)
        BY <1>4, <1>5, <3>1, <4>1 DEF Passed
      <4> QED BY <1>1, <3>1, <4>2 DEF NoneExists
    <3> QED BY <1>1, <1>2, <2>1, <3>1 DEF NoneExists
  <2>5. Ready'
    BY <1>1, <2>1 DEF Ready, Registered, Slots
  <2>6. WildAsked'
    BY <2>1 DEF WildAsked
  <2> QED BY <2>2, <2>3, <2>4, <2>5, <2>6 DEF ChoiceInv
<1>6. CASE user = FALSE
  <2>1. pc' = "ctors" /\ todo' = todo \ {con} /\ con' = NOTHING /\ UNCHANGED <<user, i>>
    BY <1>6, Zenon DEF TryNext
  <2>2. ChoiceTypes'
    BY <1>1, <2>1 DEF ChoiceTypes, Slots, Boot
  <2>3. Order'
    BY <1>1, <2>1 DEF Order, Running
  <2>4. NoneExists'
    <3>1. ASSUME con = "ttyS", NEW j \in DOMAIN pcs PROVE ~Exists(pcs[j])
      <4>1. Passed(j)
        BY <1>4, <1>6, <3>1 DEF Passed
      <4> QED BY <1>1, <3>1, <4>1 DEF NoneExists
    <3>2. CASE con = "ttyS"
      BY <1>2, <2>1, <3>1, <3>2 DEF NoneExists
    <3>3. CASE con # "ttyS"
      BY <1>1, <1>2, <2>1, <3>3 DEF NoneExists
    <3> QED BY <3>2, <3>3
  <2>5. Ready'
    BY <1>1, <2>1 DEF Ready, Registered, Slots
  <2>6. WildAsked'
    BY <2>1 DEF WildAsked
  <2> QED BY <2>2, <2>3, <2>4, <2>5, <2>6 DEF ChoiceInv
<1> QED BY <1>1, <1>5, <1>6 DEF ChoiceTypes

\* A serial port is only used though it is not there if the entry asked for it.
LEMMA WildEntry ==
    ASSUME ChoiceInv, pc = "try", con = "ttyS", NEW e,
           Matches(e) \/ Named(e),
           ~Registered(IF Matches(e) THEN MatchIndex(e) ELSE e.index)
    PROVE  e.name \in {"ttyS", "uart"} /\ ~Exists(e)
<1>1. ChoiceTypes /\ Order
  BY DEF ChoiceInv
<1>2. CASE Matches(e)
  <2>1. e.name = "uart" /\ e.addr # NONE
    BY <1>2 DEF Matches
  <2>2. SUFFICES ASSUME NEW s \in Slots, Registered(s), uart_ports[s] = e.addr PROVE FALSE
    BY <2>1, ExistsSpelled
  <2>3. s \in Matching(e.addr)
    BY <2>2 DEF Matching
  <2>4. First(Matching(e.addr)) \in Matching(e.addr)
    <3>1. Matching(e.addr) \in SUBSET Nat
      BY Constants DEF Matching, Slots
    <3> QED BY <2>3, <3>1, FirstIn
  <2>5. e.addr # 0
    BY <1>1, <2>2 DEF ChoiceTypes, NONE
  <2>6. Registered(First(Matching(e.addr)))
    BY <2>1, <2>4, <2>5 DEF Matching, Registered
  <2>7. MatchIndex(e) = First(Matching(e.addr))
    BY <2>3, <2>6, Zenon DEF MatchIndex
  <2> QED BY <1>2, <2>6, <2>7
<1>3. CASE ~Matches(e)
  <2>1. e.name = "ttyS" /\ ~Registered(e.index)
    BY <1>3 DEF Named
  <2> QED BY <2>1, ExistsSpelled
<1> QED BY <1>2, <1>3

\* A console is found, set up and made the active one.
LEMMA ChoiceEnable == ASSUME ChoiceInv, TryEnable PROVE ChoiceInv'
<1>1. ChoiceTypes /\ Order /\ NoneExists /\ Ready
  BY DEF ChoiceInv
<1> DEFINE e == pcs[i]
           x == IF Matches(e) THEN MatchIndex(e) ELSE e.index
<1>2. /\ pc = "try" /\ i <= Len(pcs)
      /\ Matches(e) \/ Named(e)
      /\ index' = [index EXCEPT ![con] = x]
      /\ UNCHANGED <<pcs, uart_ports>>
  BY Zenon DEF TryEnable
<1>3. con \in todo /\ con \in Consoles /\ active_console # con
  BY <1>1, <1>2 DEF Order, ChoiceTypes
<1>4. index'[con] = x /\ DOMAIN index' = Consoles /\ (con # "ttyS" => index'["ttyS"] = index["ttyS"])
  BY <1>1, <1>2, <1>3 DEF ChoiceTypes, Consoles
<1> HIDE DEF x, e
<1>5. ASSUME Enable, con = "ttyS" => Registered(x) /\ UNCHANGED framebuffer, con = "tty" => 0 \in DOMAIN framebuffer'
      PROVE  ChoiceInv'
  <2>1. /\ active_console' = con /\ todo' = todo \ {con} /\ pc' = "ctors" /\ con' = NOTHING
        /\ mcr' = (mcr \cup (IF con = "ttyS" THEN {index'[con]} ELSE {})) \ ExitActive(active_console)
        /\ UNCHANGED <<user, i>>
    BY <1>5, Zenon DEF Enable
  <2>2. ChoiceTypes'
    BY <1>1, <1>2, <1>3, <1>4, <2>1 DEF ChoiceTypes, Slots, Boot
  <2>3. Order'
    BY <1>1, <1>2, <1>3, <1>4, <2>1 DEF Order, Running
  <2>4. NoneExists'
    BY <1>3, <2>1 DEF NoneExists, Consoles, NOTHING
  <2>5. Ready'
    <3>1. CASE con = "ttyS"
      <4>1. mcr = {} /\ active_console # "ttyS"
        BY <1>1, <1>2, <1>3, <3>1 DEF Ready, ChoiceTypes, Consoles
      <4>2. mcr' = {x}
        BY <1>4, <2>1, <3>1, <4>1 DEF ExitActive
      <4>3. x \in Slots /\ uart_ports'[x] # NONE
        BY <1>2, <1>5, <3>1 DEF Registered
      <4>4. PICK y : y = x
        OBVIOUS
      <4>5. mcr' = {y} /\ y \in Slots /\ uart_ports'[y] # NONE /\ index'["ttyS"] = y
        BY <1>4, <3>1, <4>2, <4>3, <4>4
      <4> QED BY <2>1, <3>1, <4>5 DEF Ready, NOTHING, Registered, Slots
    <3>2. CASE con = "tty"
      <4>1. active_console = "ttyS" => mcr = {index["ttyS"]}
        BY <1>1, <1>2 DEF Ready
      <4>2. active_console # "ttyS" => mcr = {}
        BY <1>1, <1>2, <1>3, <3>2 DEF Ready, ChoiceTypes, Consoles
      <4>3. mcr' = {}
        BY <2>1, <3>2, <4>1, <4>2 DEF ExitActive
      <4> QED BY <1>5, <2>1, <3>2, <4>3 DEF Ready, NOTHING
    <3> QED BY <1>3, <3>1, <3>2 DEF Consoles
  <2>6. WildAsked'
    BY <2>1 DEF WildAsked
  <2> QED BY <2>2, <2>3, <2>4, <2>5, <2>6 DEF ChoiceInv
<1>6. CASE con = "ttyS"
  <2>1. SetupPort
    BY <1>6, Zenon DEF TryEnable
  <2>2. UNCHANGED framebuffer
    BY <2>1, Zenon DEF SetupPort, screen
  <2>3. (Registered(index'[con])) <=> Registered(x)
    BY <1>4
  <2>4. CASE Registered(x)
    <3>1. Enable
      BY <2>1, <2>3, <2>4, Zenon DEF SetupPort
    <3> QED BY <1>5, <1>6, <2>2, <2>4, <3>1
  <2>5. CASE ~Registered(x)
    <3>1. pc' = "wild" /\ UNCHANGED <<mcr, active_console, todo, con, user, i>>
      BY <2>1, <2>3, <2>5, Zenon DEF SetupPort
    <3>2. ChoiceTypes'
      BY <1>1, <1>2, <1>4, <3>1 DEF ChoiceTypes, Slots
    <3>3. Order'
      BY <1>1, <3>1 DEF Order, Running
    <3>4. NoneExists'
      BY <1>3, <1>6, <3>1 DEF NoneExists
    <3>5. Ready'
      BY <3>1 DEF Ready
    <3>6. WildAsked'
      <4>1. i \in DOMAIN pcs
        BY <1>1, <1>2, EntryTypes DEF ChoiceTypes
      <4>2. e.name \in {"ttyS", "uart"} /\ ~Exists(e)
        BY <1>2, <1>6, <2>5, WildEntry DEF x
      <4>3. Exists(e)' <=> Exists(e)
        BY <1>2, <3>1, Zenon DEF Exists, Registered, Slots, e
      <4> QED BY <1>2, <3>1, <4>1, <4>2, <4>3 DEF WildAsked, e
    <3> QED BY <3>2, <3>3, <3>4, <3>5, <3>6 DEF ChoiceInv
  <2> QED BY <2>4, <2>5
<1>7. CASE con = "tty"
  <2>1. SetupScreen
    BY <1>7, Zenon DEF TryEnable
  <2>2. CASE framebuffer' = Cleared /\ Enable
    BY <1>5, <1>7, <2>2, ClearedNonempty
  <2>3. CASE TryNext /\ UNCHANGED <<mcr, active_console, screen>>
    BY <1>2, <1>4, <1>7, <2>3, ChoiceNext DEF screen
  <2> QED BY <2>1, <2>2, <2>3, Zenon DEF SetupScreen
<1> QED BY <1>3, <1>6, <1>7 DEF Consoles
\* Every step of the program keeps the choice.
LEMMA ChoiceStep == ASSUME ChoiceInv, [Next]_vars PROVE ChoiceInv'
<1>1. CASE UNCHANGED vars
  <2>1. UNCHANGED <<pc, pcs, todo, uart_ports, mcr, index, active_console, con, user, i, framebuffer>>
    BY <1>1 DEF vars, choice, screen
  <2>2. \A j \in DOMAIN pcs : Exists(pcs[j])' <=> Exists(pcs[j])
    BY <2>1, Zenon DEF Exists, Registered, Slots
  <2>3. ChoiceTypes'
    BY <2>1, Zenon DEF ChoiceInv, ChoiceTypes
  <2>4. Order'
    BY <2>1, Zenon DEF ChoiceInv, Order
  <2>5. NoneExists'
    BY <2>1, <2>2, Zenon DEF ChoiceInv, NoneExists, Passed
  <2>6. Ready'
    BY <2>1, Zenon DEF ChoiceInv, Ready, Registered, Slots
  <2>7. WildAsked'
    BY <2>1, <2>2, Zenon DEF ChoiceInv, WildAsked
  <2> QED BY <2>3, <2>4, <2>5, <2>6, <2>7 DEF ChoiceInv
<1>2. CASE TryEnd
  <2>1. /\ pc = "try" /\ i > Len(pcs) /\ TryNext
        /\ UNCHANGED <<pcs, uart_ports, mcr, index, active_console, framebuffer>>
    BY <1>2, Zenon DEF TryEnd, screen
  <2>2. DOMAIN index' = Consoles /\ index'["ttyS"] = index["ttyS"]
    BY <2>1 DEF ChoiceInv, ChoiceTypes
  <2> QED BY <2>1, <2>2, ChoiceNext
<1>3. CASE CtorsDone
  <2>1. pc = "ctors" /\ todo = {} /\ pc' = "run" /\ UNCHANGED choice /\ UNCHANGED framebuffer
    BY <1>3, Zenon DEF CtorsDone, screen
  <2> QED BY <2>1, ChoiceKept DEF Running
<1>4. CASE (\E s \in Pieces : ulog(s)) \/ Fill \/ FillDone \/ EmitNowhere \/ EmitPort \/ EmitDone
  <2>1. UNCHANGED choice /\ UNCHANGED framebuffer
    BY <1>4, Zenon DEF ulog, Fill, FillDone, EmitNowhere, EmitPort, EmitDone, screen
  <2>2. pc \in Running
    BY <1>4, Zenon DEF ulog, Fill, FillDone, EmitNowhere, EmitPort, EmitDone, Running
  <2>3. pc' \in Running
    BY <1>4 DEF ulog, Fill, FillDone, EmitNowhere, EmitPort, EmitDone, Running, Flush
  <2> QED BY <2>1, <2>2, <2>3, ChoiceKept
<1>5. CASE EmitScreen
  <2>1. pc = "emit" /\ UNCHANGED <<pc, choice>>
    BY <1>5, Zenon DEF EmitScreen
  <2>2. \A f : framebuffer' = Scrolled(f) \/ framebuffer' = f => DOMAIN framebuffer' = DOMAIN f
    BY DEF Scrolled
  <2>3. \A ch : DOMAIN Drawn(ch) = DOMAIN framebuffer
    BY DEF Drawn
  <2>4. \A f : NewLine(f) => framebuffer' = Scrolled(f) \/ framebuffer' = f
    BY Zenon DEF NewLine
  <2>5. NewLine(framebuffer) \/ NewLine(Drawn(Head(em))) \/ framebuffer' = Drawn(Head(em))
    BY <1>5, Zenon DEF EmitScreen
  <2>6. DOMAIN framebuffer' = DOMAIN framebuffer
    BY <2>2, <2>3, <2>4, <2>5, Zenon
  <2> QED BY <2>1, <2>6, ChoiceKept DEF Running
<1>6. CASE EmitFault
  <2>1. pc = "emit" /\ pc' = "fault" /\ UNCHANGED choice /\ framebuffer' = Drawn(Head(em))
    BY <1>6, Zenon DEF EmitFault
  <2>2. \A ch : DOMAIN Drawn(ch) = DOMAIN framebuffer
    BY DEF Drawn
  <2>3. DOMAIN framebuffer' = DOMAIN framebuffer
    BY <2>1, <2>2, Zenon
  <2> QED BY <2>1, <2>3, ChoiceKept DEF Running
<1> QED BY <1>1, <1>2, <1>3, <1>4, <1>5, <1>6, ChoiceAdd, ChoicePorts, ChoiceSkip, ChoiceEnable, Zenon DEF Next

\* The program starts with nothing chosen.
LEMMA ChoiceInit == Init => ChoiceInv
<1> SUFFICES ASSUME Init PROVE ChoiceInv
  OBVIOUS
<1> USE DEF Init
<1>1. ChoiceTypes
  <2>1. pcs \in Seq(PcEntry)
    BY EmptySeq
  <2>2. user \in BOOLEAN
    BY Zenon
  <2> QED BY <2>1, <2>2 DEF ChoiceTypes, Boot, Consoles, NOTHING
<1>2. Order
  BY DEF Order, Running, Consoles, NOTHING
<1>3. NoneExists
  BY DEF NoneExists, Consoles
<1>4. Ready
  BY DEF Ready, NOTHING
<1>5. WildAsked
  BY DEF WildAsked
<1> QED BY <1>1, <1>2, <1>3, <1>4, <1>5 DEF ChoiceInv

\* The console that output goes to is ready and is the only one: whichever
\* order the constructors of 8250.c and efifb.c run in, register_console shuts
\* down the old console and not the new one; a console is found whenever an
\* entry asks for a port there is, and a port that is not there is only used
\* because an entry asks for it.
THEOREM ConsoleReady == Spec => []ActiveReady
<1>1. Init => ChoiceInv
  BY ChoiceInit
<1>2. ChoiceInv /\ [Next]_vars => ChoiceInv'
  BY ChoiceStep
<1>3. ChoiceInv => ActiveReady
  <2> SUFFICES ASSUME ChoiceInv PROVE ActiveReady
    OBVIOUS
  <2>1. /\ pc # "wild" =>
             /\ active_console = "ttyS" => mcr = {index["ttyS"]} /\ Registered(index["ttyS"])
             /\ active_console = "tty" => framebuffer # <<>> /\ mcr = {}
             /\ active_console = NOTHING => mcr = {}
    BY DEF ChoiceInv, Ready
  <2>2. pc = "run" /\ (\E j \in DOMAIN pcs : Exists(pcs[j])) => active_console # NOTHING
    BY DEF ChoiceInv, NoneExists, Order, Running
  <2>3. WildAsked
    BY DEF ChoiceInv
  <2> QED BY <2>1, <2>2, <2>3, Zenon DEF ActiveReady, WildAsked
<1> QED BY <1>1, <1>2, <1>3, PTL DEF Spec
-----------------------------------------------------------------------------
(* Sequences of characters, and the lines in them.                         *)

\* A set of positions of a sequence has a last.
LEMMA LastExists ==
    ASSUME NEW n \in Nat, NEW S \in SUBSET (1 .. n), S # {}
    PROVE  \E k \in S : \A j \in S : j <= k
<1> DEFINE T == {n - j : j \in S}
<1>1. T \in SUBSET Nat /\ T # {}
  <2>1. \A j \in S : n - j \in Nat
    OBVIOUS
  <2>2. PICK j \in S : TRUE
    OBVIOUS
  <2>3. n - j \in T
    OBVIOUS
  <2> QED BY <2>1, <2>3
<1>2. PICK t \in T : \A u \in T : ~(<<u, t>> \in OpToRel(<, Nat))
  BY <1>1, NatLessThanWellFounded, WFMin
<1>3. \A u \in T : ~(u < t)
  BY <1>1, <1>2 DEF OpToRel
<1>4. PICK k \in S : t = n - k
  OBVIOUS
<1>5. ASSUME NEW j \in S PROVE j <= k
  <2>1. ~(n - j < n - k)
    BY <1>3, <1>4
  <2> QED BY <2>1
<1> QED BY <1>5

\* A piece that is cut in two is put together again by its parts.
LEMMA Parts ==
    ASSUME NEW s \in Seq(Chars), NEW n \in 0 .. Len(s)
    PROVE  /\ SubSeq(s, 1, n) \in Seq(Chars) /\ SubSeq(s, n + 1, Len(s)) \in Seq(Chars)
           /\ Len(SubSeq(s, 1, n)) = n
           /\ SubSeq(s, 1, n) \o SubSeq(s, n + 1, Len(s)) = s
           /\ \A k \in 1 .. n : SubSeq(s, 1, n)[k] = s[k]
           /\ Len(SubSeq(s, n + 1, Len(s))) = Len(s) - n
           /\ \A k \in 1 .. Len(s) - n : SubSeq(s, n + 1, Len(s))[k] = s[n + k]
<1>1. Len(s) \in Nat /\ n \in Nat /\ n <= Len(s)
  BY LenProperties
<1>2. \A k \in 1 .. Len(s) : s[k] \in Chars
  BY ElementOfSeq
<1>3. /\ SubSeq(s, 1, n) \in Seq(Chars)
      /\ Len(SubSeq(s, 1, n)) = (IF 1 <= n THEN n - 1 + 1 ELSE 0)
      /\ \A k \in 1 .. n - 1 + 1 : SubSeq(s, 1, n)[k] = s[1 + k - 1]
  <2>1. \A k \in 1 .. n : s[k] \in Chars
    BY <1>1, <1>2
  <2>2. 1 \in Int /\ n \in Int
    BY <1>1
  <2> QED BY <2>1, <2>2, SubSeqProperties
<1>4. /\ SubSeq(s, n + 1, Len(s)) \in Seq(Chars)
      /\ Len(SubSeq(s, n + 1, Len(s))) = (IF n + 1 <= Len(s) THEN Len(s) - (n + 1) + 1 ELSE 0)
      /\ \A k \in 1 .. Len(s) - (n + 1) + 1 : SubSeq(s, n + 1, Len(s))[k] = s[n + 1 + k - 1]
  <2>1. \A k \in n + 1 .. Len(s) : s[k] \in Chars
    BY <1>1, <1>2
  <2>2. n + 1 \in Int /\ Len(s) \in Int
    BY <1>1
  <2> QED BY <2>1, <2>2, SubSeqProperties
<1>5. SubSeq(s, 1, n) \o SubSeq(s, n + 1, Len(s)) = s
  <2>1. 1 \in 1 .. Len(s) + 1 /\ n \in 1 - 1 .. Len(s) /\ Len(s) \in n .. Len(s)
    BY <1>1
  <2>2. SubSeq(s, 1, n) \o SubSeq(s, n + 1, Len(s)) = SubSeq(s, 1, Len(s))
    BY <2>1, ConcatAdjacentSubSeq
  <2> QED BY <2>2, SubSeqFull
<1>6. /\ Len(SubSeq(s, 1, n)) = n
      /\ \A k \in 1 .. n : SubSeq(s, 1, n)[k] = s[k]
  BY <1>1, <1>3
<1>7. /\ Len(SubSeq(s, n + 1, Len(s))) = Len(s) - n
      /\ \A k \in 1 .. Len(s) - n : SubSeq(s, n + 1, Len(s))[k] = s[n + k]
  BY <1>1, <1>4
<1> QED BY <1>3, <1>4, <1>5, <1>6, <1>7

\* Putting pieces one behind another.
LEMMA CatFacts ==
    /\ \A s, t \in Seq(Chars) : Cat(s, t) \in Seq(Chars)
    /\ \A s, t, u \in Seq(Chars) : Cat(Cat(s, t), u) = Cat(s, Cat(t, u))
    /\ \A s \in Seq(Chars) : Cat(s, <<>>) = s /\ Cat(<<>>, s) = s
    /\ <<>> \in Seq(Chars) /\ Cat(<<>>, <<>>) = <<>>
<1>1. \A s, t \in Seq(Chars) : Cat(s, t) \in Seq(Chars)
  BY ConcatProperties DEF Cat
<1>2. \A s, t, u \in Seq(Chars) : Cat(Cat(s, t), u) = Cat(s, Cat(t, u))
  BY ConcatAssociative DEF Cat
<1>3. \A s \in Seq(Chars) : Cat(s, <<>>) = s /\ Cat(<<>>, s) = s
  BY ConcatEmptySeq DEF Cat
<1>4. <<>> \in Seq(Chars)
  BY EmptySeq
<1>5. Cat(<<>>, <<>>) = <<>>
  BY <1>3, <1>4, Zenon
<1> QED BY <1>1, <1>2, <1>3, <1>4, <1>5, Zenon

\* A piece with nothing around it.
LEMMA CatAlone ==
    ASSUME NEW b, b \in Seq(Chars)
    PROVE  Cat(<<>>, Cat(b, Cat(<<>>, <<>>))) = b
<1>1. Cat(<<>>, <<>>) = <<>>
  BY CatFacts, Zenon
<1>2. Cat(b, <<>>) = b
  BY CatFacts, Zenon
<1>3. Cat(<<>>, b) = b
  BY CatFacts, Zenon
<1>4. Cat(b, Cat(<<>>, <<>>)) = b
  BY <1>1, <1>2, Zenon
<1> QED BY <1>3, <1>4, Zenon

\* Which positions hold the end of a line.
LEMMA LinesAre ==
    ASSUME NEW s \in Seq(Chars)
    PROVE  Lines(s) = {} <=> \A k \in 1 .. Len(s) : s[k] # NL
BY LenProperties DEF Lines

\* Nothing has no lines.
LEMMA LinesEmpty == Lines(<<>>) = {} /\ <<>> \in Seq(Chars) /\ Len(<<>>) = 0
BY EmptySeq DEF Lines

\* A part of a piece without an end of line has none.
LEMMA LinesOfParts ==
    ASSUME NEW s \in Seq(Chars), NEW n \in 0 .. Len(s), Lines(s) = {}
    PROVE  Lines(SubSeq(s, 1, n)) = {} /\ Lines(SubSeq(s, n + 1, Len(s))) = {}
<1>1. Len(s) \in Nat /\ \A k \in 1 .. Len(s) : s[k] # NL
  BY LinesAre, LenProperties
<1>2. \A k \in 1 .. Len(SubSeq(s, 1, n)) : SubSeq(s, 1, n)[k] # NL
  BY <1>1, Parts
<1>3. \A k \in 1 .. Len(SubSeq(s, n + 1, Len(s))) : SubSeq(s, n + 1, Len(s))[k] # NL
  BY <1>1, Parts
<1> QED BY <1>2, <1>3, Parts, LinesAre

\* Two pieces without an end of line have none together.
LEMMA LinesConcat ==
    ASSUME NEW s \in Seq(Chars), NEW t \in Seq(Chars), Lines(s) = {}, Lines(t) = {}
    PROVE  Lines(s \o t) = {}
<1>1. Len(s) \in Nat /\ Len(t) \in Nat
  BY LenProperties
<1>2. \A k \in 1 .. Len(s) : s[k] # NL
  BY LinesAre
<1>3. \A k \in 1 .. Len(t) : t[k] # NL
  BY LinesAre
<1>4. s \o t \in Seq(Chars) /\ Len(s \o t) = Len(s) + Len(t)
  BY ConcatProperties
<1>5. \A k \in 1 .. Len(s) + Len(t) : (s \o t)[k] = IF k <= Len(s) THEN s[k] ELSE t[k - Len(s)]
  BY ConcatProperties
<1>6. \A k \in 1 .. Len(s) + Len(t) : (s \o t)[k] # NL
  BY <1>1, <1>2, <1>3, <1>5
<1> QED BY <1>4, <1>6, LinesAre

\* What is behind the last end of line has none.
LEMMA BehindLast ==
    ASSUME NEW s \in Seq(Chars), Lines(s) # {}
    PROVE  /\ LastLine(s) \in 1 .. Len(s)
           /\ Lines(SubSeq(s, LastLine(s) + 1, Len(s))) = {}
<1>1. Len(s) \in Nat /\ Lines(s) \in SUBSET (1 .. Len(s))
  BY LenProperties DEF Lines
<1>2. LastLine(s) \in Lines(s) /\ \A j \in Lines(s) : j <= LastLine(s)
  BY <1>1, LastExists, Zenon DEF LastLine
<1>3. PICK m : m = LastLine(s)
  OBVIOUS
<1>4. m \in 1 .. Len(s) /\ \A j \in 1 .. Len(s) : s[j] = NL => j <= m
  BY <1>1, <1>2, <1>3, LenProperties DEF Lines
<1>5. m \in 0 .. Len(s)
  BY <1>1, <1>4
<1>6. \A k \in 1 .. Len(SubSeq(s, m + 1, Len(s))) : SubSeq(s, m + 1, Len(s))[k] # NL
  BY <1>1, <1>4, <1>5, Parts
<1>7. Lines(SubSeq(s, m + 1, Len(s))) = {}
  BY <1>5, <1>6, Parts, LinesAre
<1> QED BY <1>3, <1>4, <1>7
-----------------------------------------------------------------------------
(* The log.                                                                *)

\* Until the program runs nothing is logged.
BootStep ==
    \/ console_setup \/ (\E e \in Preferred : add_preferred_console(e))
    \/ (\E c \in Consoles : console_init(c))
    \/ RegisterPort \/ PortsDone \/ TrySkip \/ TryEnable \/ TryEnd \/ CtorsDone

\* The program counter of the choice.
LEMMA BootPc == ASSUME BootStep PROVE pc' \in Boot \cup {"run", "wild"}
<1>1. pc \in Boot
  BY Zenon DEF BootStep, console_setup, add_preferred_console, console_init, RegisterPort,
     PortsDone, TrySkip, TryEnable, TryEnd, CtorsDone, Boot
<1>2. CASE TryEnable \/ TryEnd
  <2>1. TryNext \/ Enable \/ pc' = "wild"
    BY <1>2, Zenon DEF TryEnable, TryEnd, SetupPort, SetupScreen
  <2>2. pc = "try"
    BY <1>2, Zenon DEF TryEnable, TryEnd
  <2>3. TryNext => pc' = pc \/ pc' = "ctors"
    BY Zenon DEF TryNext
  <2> QED BY <2>1, <2>2, <2>3 DEF Enable, Boot
<1>3. CASE ~(TryEnable \/ TryEnd)
  <2>1. \/ pc' \in {"ctors", "ports", "try", "run"}
        \/ pc' = pc
    BY <1>3 DEF BootStep, console_setup, add_preferred_console, console_init, RegisterPort,
       PortsDone, TrySkip, CtorsDone
  <2> QED BY <1>1, <2>1 DEF Boot
<1> QED BY <1>2, <1>3

\* The choice of a console leaves the log alone.
LEMMA LogBoot ==
    ASSUME LogInv, BootStep
    PROVE  LogInv'
<1>1. pc \in Boot
  BY Zenon DEF BootStep, console_setup, add_preferred_console, console_init, RegisterPort,
     PortsDone, TrySkip, TryEnable, TryEnd, CtorsDone, Boot
<1>2. UNCHANGED log
  BY Zenon DEF BootStep, console_setup, add_preferred_console, console_init, RegisterPort,
     PortsDone, TrySkip, TryEnable, TryEnd, CtorsDone, SetupPort, SetupScreen
<1>3. pc' \in Boot \cup {"run", "wild"}
  BY BootPc
<1>4. /\ UNCHANGED <<buffer, rest, tail, line, em, text, out>>
      /\ rest = <<>> /\ tail = <<>> /\ line = FALSE /\ em = <<>>
      /\ text = <<>> /\ out = <<>> /\ buffer = <<>>
  BY <1>1, <1>2 DEF log, LogInv, LogPhase, Boot
<1>5. LogTypes'
  BY <1>4, Zenon DEF LogInv, LogTypes
<1>6. Conserved'
  BY <1>4, CatFacts DEF Conserved, Joined
<1>7. LogPhase'
  BY <1>3, <1>4, LinesEmpty, Constants DEF LogPhase, Boot
<1> QED BY <1>3, <1>5, <1>6, <1>7 DEF LogInv, Running


\* A piece is cut and logged: the lines, then what is behind them.
LEMMA LogPiece ==
    ASSUME LogInv, NEW s \in Pieces, ulog(s)
    PROVE  LogInv'
<1>1. s \in Seq(Chars)
  <2>1. PICK n \in 1 .. MaxPiece : s \in [1 .. n -> Chars]
    BY DEF Pieces
  <2>2. n \in Nat
    BY <2>1, Constants
  <2> QED BY <2>1, <2>2, SeqDef
<1>2. /\ pc = "run" /\ pc' = "write" /\ text' = Cat(text, s) /\ line' = (Lines(s) # {})
      /\ UNCHANGED <<active_console, buffer, em, out>>
  BY Zenon DEF ulog, choice, Cat
<1>3. LogTypes /\ Conserved /\ LogPhase
  BY DEF LogInv
<1>4. rest = <<>> /\ tail = <<>> /\ em = <<>> /\ Lines(buffer) = {} /\ Len(buffer) <= BUF_SIZE
  BY <1>2, <1>3 DEF LogPhase
<1>5. /\ rest' \in Seq(Chars) /\ tail' \in Seq(Chars) /\ Cat(rest', tail') = s
      /\ Lines(tail') = {} /\ (line' = FALSE => tail' = <<>> /\ Lines(rest') = {})
      /\ line' \in BOOLEAN
  <2>1. CASE Lines(s) = {}
    <3>1. rest' = s /\ tail' = <<>>
      BY <2>1, Zenon DEF ulog
    <3>2. line' \in BOOLEAN
      BY <1>2, Zenon
    <3>3. Cat(rest', tail') = s
      BY <1>1, <3>1, CatFacts
    <3> QED BY <1>1, <2>1, <3>1, <3>2, <3>3, LinesEmpty, Zenon
  <2>2. CASE Lines(s) # {}
    <3>1. rest' = SubSeq(s, 1, LastLine(s)) /\ tail' = SubSeq(s, LastLine(s) + 1, Len(s))
      BY <2>2, Zenon DEF ulog
    <3>2. LastLine(s) \in 0 .. Len(s)
      BY <1>1, <2>2, BehindLast
    <3>3. line' = TRUE
      BY <1>2, <2>2, Zenon
    <3>4. rest' \in Seq(Chars) /\ tail' \in Seq(Chars) /\ Cat(rest', tail') = s
      BY <1>1, <3>1, <3>2, Parts DEF Cat
    <3>5. Lines(tail') = {}
      BY <1>1, <2>2, <3>1, BehindLast
    <3> QED BY <3>3, <3>4, <3>5, Zenon
  <2> QED BY <2>1, <2>2
<1>6. LogTypes'
  <2>1. text' \in Seq(Chars)
    BY <1>1, <1>2, <1>3, CatFacts DEF LogTypes
  <2> QED BY <1>2, <1>3, <1>5, <2>1, Zenon DEF LogTypes
<1>7. Conserved'
  <2>1. out \in Seq(Chars) /\ buffer \in Seq(Chars)
    BY <1>3 DEF LogTypes
  <2>2. Cat(<<>>, Cat(buffer, s)) = Cat(buffer, s)
    BY <1>1, <2>1, CatFacts
  <2>3. Cat(Cat(out, buffer), s) = Cat(out, Cat(buffer, s))
    BY <1>1, <2>1, CatFacts
  <2>4. Cat(<<>>, Cat(buffer, Cat(<<>>, <<>>))) = buffer
    BY <2>1, CatAlone, Zenon
  <2>5. active_console # NOTHING => text = Cat(out, buffer)
    BY <1>3, <1>4, <2>4, Zenon DEF Conserved, Joined
  <2> QED BY <1>2, <1>4, <1>5, <2>2, <2>3, <2>5, Zenon DEF Conserved, Joined
<1>8. LogPhase'
  BY <1>2, <1>4, <1>5 DEF LogPhase, Boot
<1> QED BY <1>2, <1>6, <1>7, <1>8 DEF LogInv, Running
\* One iteration of the loop of wbuffer_no_flush.
LEMMA LogFill == ASSUME LogInv, Fill PROVE LogInv'
<1>1. LogTypes /\ Conserved /\ LogPhase
  BY DEF LogInv
<1>2. pc = "write" /\ rest # <<>> /\ UNCHANGED <<active_console, tail, line, text, out>>
  BY Zenon DEF Fill, choice
<1>3. em = <<>> /\ Len(buffer) <= BUF_SIZE /\ Lines(tail) = {}
      /\ (line = FALSE => tail = <<>> /\ Lines(rest) = {} /\ Lines(buffer) = {})
  BY <1>1, <1>2 DEF LogPhase
<1>4. /\ buffer \in Seq(Chars) /\ rest \in Seq(Chars) /\ tail \in Seq(Chars) /\ out \in Seq(Chars)
      /\ Len(buffer) \in Nat /\ Len(rest) \in Nat
  BY <1>1, LenProperties DEF LogTypes
<1>5. CASE Len(buffer) = BUF_SIZE
  <2>1. em' = buffer /\ buffer' = <<>> /\ pc' = "emit" /\ rest' = rest
    BY <1>5, Zenon DEF Fill, Flush
  <2>2. LogTypes'
    BY <1>1, <1>2, <2>1, LinesEmpty, Zenon DEF LogTypes
  <2>3. Conserved'
    <3>1. Cat(<<>>, Cat(buffer, Cat(rest, tail))) = Cat(buffer, Cat(<<>>, Cat(rest, tail)))
      BY <1>4, CatFacts
    <3> QED BY <1>1, <1>2, <1>3, <2>1, <3>1, Zenon DEF Conserved, Joined
  <2>4. LogPhase'
    BY <1>2, <1>3, <2>1, LinesEmpty, Constants DEF LogPhase, Boot
  <2> QED BY <2>1, <2>2, <2>3, <2>4 DEF LogInv, Running
<1>6. CASE Len(buffer) # BUF_SIZE /\ Bypass
  <2>1. em' = rest /\ rest' = <<>> /\ pc' = "emit" /\ buffer' = buffer /\ buffer = <<>>
    BY <1>6, Zenon DEF Fill, Bypass
  <2>2. LogTypes'
    BY <1>1, <1>2, <2>1, LinesEmpty, Zenon DEF LogTypes
  <2>3. Conserved'
    <3>1. Cat(<<>>, Cat(<<>>, Cat(rest, tail))) = Cat(rest, Cat(<<>>, Cat(<<>>, tail)))
      BY <1>4, CatFacts
    <3> QED BY <1>1, <1>2, <1>3, <2>1, <3>1, Zenon DEF Conserved, Joined
  <2>4. LogPhase'
    BY <1>2, <1>3, <2>1, LinesEmpty, Constants DEF LogPhase, Boot
  <2> QED BY <2>1, <2>2, <2>3, <2>4 DEF LogInv, Running
<1>7. CASE Len(buffer) # BUF_SIZE /\ ~Bypass
  <2>1. PICK n : n = Min(Len(rest), BUF_SIZE - Len(buffer))
    OBVIOUS
  <2>2. /\ buffer' = buffer \o SubSeq(rest, 1, n)
        /\ rest' = SubSeq(rest, n + 1, Len(rest))
        /\ pc' = pc /\ em' = em
    BY <1>7, <2>1, Zenon DEF Fill
  <2>3. n \in 0 .. Len(rest) /\ Len(buffer) + n <= BUF_SIZE
    BY <1>3, <1>4, <1>7, <2>1, Constants DEF Min
  <2>4. PICK a, z : a = SubSeq(rest, 1, n) /\ z = SubSeq(rest, n + 1, Len(rest))
    OBVIOUS
  <2>5. a \in Seq(Chars) /\ z \in Seq(Chars) /\ Len(a) = n /\ a \o z = rest
    BY <1>4, <2>3, <2>4, Parts
  <2>6. buffer \o a \in Seq(Chars) /\ Len(buffer \o a) <= BUF_SIZE
    BY <1>4, <2>3, <2>5, ConcatProperties
  <2>7. LogTypes'
    BY <1>1, <1>2, <2>2, <2>4, <2>5, <2>6, Zenon DEF LogTypes
  <2>8. Conserved'
    <3>1. a \in Seq(Chars) /\ z \in Seq(Chars) /\ buffer \in Seq(Chars) /\ tail \in Seq(Chars)
      BY <1>4, <2>5
    <3>2. Cat(Cat(buffer, a), Cat(z, tail)) = Cat(buffer, Cat(Cat(a, z), tail))
      BY <3>1, CatFacts
    <3>3. buffer' = Cat(buffer, a) /\ rest' = z /\ rest = Cat(a, z)
      BY <2>2, <2>4, <2>5, Zenon DEF Cat
    <3> QED BY <1>1, <1>2, <2>2, <3>2, <3>3, Zenon DEF Conserved, Joined
  <2>9. ASSUME line = FALSE PROVE Lines(z) = {} /\ Lines(buffer \o a) = {}
    <3>1. Lines(a) = {} /\ Lines(z) = {}
      BY <1>3, <1>4, <2>3, <2>4, <2>9, LinesOfParts
    <3> QED BY <1>3, <1>4, <2>5, <2>9, <3>1, LinesConcat
  <2>10. LogPhase'
    <3>1. PICK b : b = buffer \o a
      OBVIOUS
    <3>2. buffer' = b /\ rest' = z /\ Len(b) <= BUF_SIZE /\ (line = FALSE => Lines(z) = {} /\ Lines(b) = {})
      BY <2>2, <2>4, <2>6, <2>9, <3>1
    <3> QED BY <1>2, <1>3, <2>2, <3>2 DEF LogPhase, Boot
  <2> QED BY <1>2, <2>2, <2>7, <2>8, <2>10 DEF LogInv, Running
<1> QED BY <1>5, <1>6, <1>7

\* The lines are flushed, and the part behind them follows.
LEMMA LogFillDone == ASSUME LogInv, FillDone PROVE LogInv'
<1>1. LogTypes /\ Conserved /\ LogPhase
  BY DEF LogInv
<1>2. pc = "write" /\ rest = <<>> /\ UNCHANGED <<active_console, text, out>>
  BY Zenon DEF FillDone, choice
<1>3. em = <<>> /\ Len(buffer) <= BUF_SIZE /\ Lines(tail) = {}
      /\ (line = FALSE => tail = <<>> /\ Lines(rest) = {} /\ Lines(buffer) = {})
  BY <1>1, <1>2 DEF LogPhase
<1>4. buffer \in Seq(Chars) /\ tail \in Seq(Chars) /\ out \in Seq(Chars)
  BY <1>1 DEF LogTypes
<1>5. CASE line = TRUE
  <2>1. /\ em' = buffer /\ buffer' = <<>> /\ pc' = "emit"
        /\ rest' = tail /\ tail' = <<>> /\ line' = FALSE
    BY <1>5, Zenon DEF FillDone, Flush
  <2>2. LogTypes'
    <3>1. line' \in BOOLEAN
      BY <2>1, Zenon
    <3> QED BY <1>1, <1>2, <2>1, <3>1, LinesEmpty, Zenon DEF LogTypes
  <2>3. Conserved'
    <3>1. Cat(<<>>, Cat(buffer, Cat(<<>>, tail))) = Cat(buffer, Cat(<<>>, Cat(tail, <<>>)))
      BY <1>4, CatFacts
    <3> QED BY <1>1, <1>2, <1>3, <2>1, <3>1, Zenon DEF Conserved, Joined
  <2>4. LogPhase'
    BY <1>2, <1>3, <2>1, LinesEmpty, Constants DEF LogPhase, Boot
  <2> QED BY <2>1, <2>2, <2>3, <2>4 DEF LogInv, Running
<1>6. CASE line = FALSE
  <2>1. pc' = "run" /\ UNCHANGED <<rest, tail, line, buffer, em>>
    BY <1>6, Zenon DEF FillDone
  <2>2. LogTypes'
    BY <1>1, <1>2, <2>1, Zenon DEF LogTypes
  <2>3. Conserved'
    BY <1>1, <1>2, <2>1, Zenon DEF Conserved, Joined
  <2>4. LogPhase'
    BY <1>2, <1>3, <1>6, <2>1 DEF LogPhase, Boot
  <2> QED BY <2>1, <2>2, <2>3, <2>4 DEF LogInv, Running
<1> QED BY <1>1, <1>5, <1>6 DEF LogTypes

\* The console's write: characters go out one by one.
LEMMA LogEmit ==
    ASSUME LogInv, EmitNowhere \/ EmitPort \/ EmitScreen \/ EmitFault \/ EmitDone
    PROVE  LogInv'
<1>1. LogTypes /\ Conserved /\ LogPhase
  BY DEF LogInv
<1>2. pc = "emit" /\ UNCHANGED <<active_console, buffer, rest, tail, line, text>>
  BY Zenon DEF EmitNowhere, EmitPort, EmitScreen, EmitFault, EmitDone, choice, log
<1>3. CASE EmitNowhere
  <2>1. em' = <<>> /\ pc' = pc /\ out' = out /\ active_console = NOTHING
    BY <1>3, Zenon DEF EmitNowhere
  <2>2. LogTypes'
    BY <1>1, <1>2, <2>1, LinesEmpty, Zenon DEF LogTypes
  <2>3. Conserved'
    BY <1>2, <2>1, Zenon DEF Conserved, Joined
  <2>4. LogPhase'
    BY <1>1, <1>2, <2>1 DEF LogPhase, Boot
  <2> QED BY <1>2, <2>1, <2>2, <2>3, <2>4 DEF LogInv, Running
<1>4. CASE EmitPort \/ EmitScreen
  <2>1. em # <<>> /\ out' = Append(out, Head(em)) /\ em' = Tail(em) /\ pc' = pc
    BY <1>4, Zenon DEF EmitPort, EmitScreen
  <2>2. /\ em \in Seq(Chars) /\ out \in Seq(Chars) /\ buffer \in Seq(Chars)
        /\ rest \in Seq(Chars) /\ tail \in Seq(Chars)
    BY <1>1 DEF LogTypes
  <2>3. PICK h, t : h = Head(em) /\ t = Tail(em)
    OBVIOUS
  <2>4. h \in Chars /\ t \in Seq(Chars) /\ <<h>> \in Seq(Chars)
    BY <2>1, <2>2, <2>3, HeadTailProperties
  <2>5. em = <<h>> \o t
    <3>1. 1 \in 1 .. Len(em) /\ Len(em) \in 1 .. Len(em)
      BY <2>1, <2>2, EmptySeq
    <3>2. SubSeq(em, 1, Len(em)) = <<em[1]>> \o SubSeq(em, 1 + 1, Len(em))
      BY <2>2, <3>1, SubSeqRecursiveFirst
    <3>3. SubSeq(em, 1, Len(em)) = em /\ Tail(em) = SubSeq(em, 2, Len(em))
      BY <2>1, <2>2, SubSeqFull, TailIsSubSeq
    <3>4. Head(em) = em[1]
      BY <2>1, <2>2
    <3>5. 1 + 1 = 2
      OBVIOUS
    <3> QED BY <2>3, <3>2, <3>3, <3>4, <3>5
  <2>6. Append(out, h) = out \o <<h>> /\ Append(out, h) \in Seq(Chars)
    BY <2>2, <2>4, AppendIsConcat, AppendProperties
  <2>7. LogTypes'
    BY <1>1, <1>2, <2>1, <2>3, <2>4, <2>6, Zenon DEF LogTypes
  <2>8. Conserved'
    <3>1. PICK w \in Seq(Chars) : w = Cat(buffer, Cat(rest, tail))
      BY <2>2, CatFacts
    <3>2. PICK g \in Seq(Chars) : g = <<h>>
      BY <2>4
    <3>3. Cat(Cat(out, g), Cat(t, w)) = Cat(out, Cat(Cat(g, t), w))
      BY <2>2, <2>4, CatFacts
    <3>4. out' = Cat(out, g) /\ em' = t /\ em = Cat(g, t)
      BY <2>1, <2>3, <2>5, <2>6, <3>2, Zenon DEF Cat
    <3> QED BY <1>1, <1>2, <3>1, <3>3, <3>4, Zenon DEF Conserved, Joined
  <2>9. LogPhase'
    BY <1>1, <1>2, <2>1 DEF LogPhase, Boot
  <2> QED BY <1>2, <2>1, <2>7, <2>8, <2>9 DEF LogInv, Running
<1>5. CASE EmitDone
  <2>1. em = <<>> /\ pc' = "write" /\ UNCHANGED <<em, out>>
    BY <1>5, Zenon DEF EmitDone, log
  <2>2. LogTypes'
    BY <1>1, <1>2, <2>1, Zenon DEF LogTypes
  <2>3. Conserved'
    BY <1>1, <1>2, <2>1, Zenon DEF Conserved, Joined
  <2>4. LogPhase'
    BY <1>1, <1>2, <2>1 DEF LogPhase, Boot
  <2> QED BY <2>1, <2>2, <2>3, <2>4 DEF LogInv, Running
<1>6. CASE EmitFault
  <2>1. pc' = "fault" /\ UNCHANGED <<em, out>>
    BY <1>6, Zenon DEF EmitFault, log
  <2>2. LogTypes'
    BY <1>1, <1>2, <2>1, Zenon DEF LogTypes
  <2>3. Conserved'
    BY <1>1, <1>2, <2>1, Zenon DEF Conserved, Joined
  <2>4. LogPhase'
    BY <1>1, <1>2, <2>1 DEF LogPhase, Boot
  <2> QED BY <2>1, <2>2, <2>3, <2>4 DEF LogInv, Running
<1> QED BY <1>3, <1>4, <1>5, <1>6

\* What was logged is where the invariant says, always.
LEMMA LogAlways == Spec => []LogInv
<1>1. Init => LogInv
  <2> SUFFICES ASSUME Init PROVE LogInv
    OBVIOUS
  <2> USE DEF Init
  <2>1. LogTypes
    BY LinesEmpty, Zenon DEF LogTypes
  <2>2. Conserved
    BY Zenon DEF Conserved, Joined
  <2>3. LogPhase
    BY LinesEmpty, Constants DEF LogPhase
  <2> QED BY <2>1, <2>2, <2>3 DEF LogInv, Boot
<1>2. LogInv /\ [Next]_vars => LogInv'
  <2> SUFFICES ASSUME LogInv, [Next]_vars PROVE LogInv'
    OBVIOUS
  <2>1. CASE UNCHANGED vars
    <3>1. UNCHANGED <<pc, active_console, buffer, rest, tail, line, em, text, out>>
      BY <2>1 DEF vars, choice, log
    <3> QED BY <3>1, Zenon DEF LogInv, LogTypes, Conserved, Joined, LogPhase, Lines
  <2>2. CASE BootStep
    BY <2>2, LogBoot
  <2> QED BY <2>1, <2>2, LogPiece, LogFill, LogFillDone, LogEmit, Zenon DEF Next, BootStep
<1> QED BY <1>1, <1>2, PTL DEF Spec

\* Nothing that is logged is lost, doubled or reordered: between calls of ulog
\* the console's write has been given the text, but for the beginning of a
\* line that waits in the buffer, however the pieces, the lines and the size of
\* the buffer fall (__iob_write, wbuffer_no_flush, iob_flush).
THEOREM LogKept == Spec => []LogFaithful
<1>1. LogInv => LogFaithful
  <2> SUFFICES ASSUME LogInv, pc = "run", active_console # NOTHING
               PROVE  out \o buffer = text /\ Len(buffer) <= BUF_SIZE /\ Lines(buffer) = {}
    BY Zenon DEF LogFaithful
  <2>1. LogTypes /\ Conserved /\ LogPhase
    BY DEF LogInv
  <2>2. rest = <<>> /\ tail = <<>> /\ em = <<>> /\ Len(buffer) <= BUF_SIZE /\ Lines(buffer) = {}
    BY <2>1 DEF LogPhase
  <2>3. buffer \in Seq(Chars)
    BY <2>1 DEF LogTypes
  <2>4. Cat(<<>>, Cat(buffer, Cat(<<>>, <<>>))) = buffer
    BY <2>3, CatAlone, Zenon
  <2>5. Cat(out, buffer) = text
    BY <2>1, <2>2, <2>4, Zenon DEF Conserved, Joined
  <2> QED BY <2>2, <2>5 DEF Cat
<1> QED BY <1>1, LogAlways, PTL
-----------------------------------------------------------------------------
(* Rows and columns of a text, which a character behind it leaves alone.   *)

Ends(s, k) == Cardinality({j \in 1 .. k : s[j] = NL})

Before(s, k) == {j \in 1 .. k - 1 : s[j] = NL}
LastOf(S) == IF S = {} THEN 0 ELSE CHOOSE m \in S : \A j \in S : j <= m
ColumnIn(s, k) == k - 1 - LastOf(Before(s, k))
BreaksIn(s, j) == s[j] = NL \/ ColumnIn(s, j) % Cols = Cols - 1
BreaksBefore(s, k) == {j \in 1 .. k - 1 : BreaksIn(s, j)}
RowIn(s, k) == Cardinality(BreaksBefore(s, k))

\* A character behind a text.
LEMMA Appended ==
    ASSUME NEW s \in Seq(Chars), NEW ch \in Chars, NEW t, t = Append(s, ch)
    PROVE  /\ t \in Seq(Chars) /\ Len(s) \in Nat /\ Len(t) = Len(s) + 1
           /\ DOMAIN s = 1 .. Len(s) /\ DOMAIN t = 1 .. Len(s) + 1
           /\ \A k \in 1 .. Len(s) : t[k] = s[k]
           /\ t[Len(s) + 1] = ch
BY AppendProperties, LenProperties

\* Counting positions, one more.
LEMMA OneMore ==
    ASSUME NEW n \in Nat, NEW S \in SUBSET (1 .. n)
    PROVE  /\ IsFiniteSet(S) /\ Cardinality(S) \in Nat
           /\ Cardinality(S \cup {n + 1}) = Cardinality(S) + 1
<1>1. IsFiniteSet(S)
  BY FS_Interval, FS_Subset, 1 \in Int, n \in Int
<1>2. n + 1 \notin S
  OBVIOUS
<1> QED BY <1>1, <1>2, FS_CardinalityType, FS_AddElement

\* Fewer positions count less.
LEMMA NoMore ==
    ASSUME NEW n \in Nat, NEW T \in SUBSET (1 .. n), NEW S \in SUBSET T
    PROVE  Cardinality(S) \in Nat /\ Cardinality(T) \in Nat /\ Cardinality(S) <= Cardinality(T)
<1>1. IsFiniteSet(T)
  BY OneMore
<1> QED BY <1>1, FS_Subset, FS_CardinalityType

\* The last of some positions, or 0.
LEMMA LastOfIs ==
    ASSUME NEW n \in Nat, NEW S \in SUBSET (1 .. n)
    PROVE  /\ LastOf(S) \in 0 .. n
           /\ LastOf(S \cup {n + 1}) = n + 1
<1>1. LastOf(S) \in 0 .. n
  <2>1. CASE S = {}
    BY <2>1 DEF LastOf
  <2>2. CASE S # {}
    <3>1. \E k \in S : \A j \in S : j <= k
      BY <2>2, LastExists
    <3>2. LastOf(S) \in S
      BY <2>2, <3>1, Zenon DEF LastOf
    <3>3. \A j \in S : j \in 0 .. n
      OBVIOUS
    <3> QED BY <3>2, <3>3
  <2> QED BY <2>1, <2>2
<1>2. LastOf(S \cup {n + 1}) = n + 1
  <2> DEFINE T == S \cup {n + 1}
  <2>1. n + 1 \in T /\ \A j \in T : j <= n + 1
    OBVIOUS
  <2>2. \A m \in T : (\A j \in T : j <= m) => m = n + 1
    BY <2>1
  <2>3. T # {}
    OBVIOUS
  <2> HIDE DEF T
  <2>4. LastOf(T) = CHOOSE m \in T : \A j \in T : j <= m
    BY <2>3, Zenon DEF LastOf
  <2>5. LastOf(T) \in T /\ \A j \in T : j <= LastOf(T)
    BY <2>1, <2>4, Zenon
  <2>6. LastOf(T) = n + 1
    BY <2>2, <2>5
  <2> QED BY <2>6 DEF T
<1> QED BY <1>1, <1>2

\* Columns and rows are numbers.
LEMMA PlaceType ==
    ASSUME NEW s, NEW k \in Nat \ {0}
    PROVE  ColumnIn(s, k) \in Nat /\ RowIn(s, k) \in Nat
<1>1. k - 1 \in Nat /\ Before(s, k) \in SUBSET (1 .. k - 1) /\ BreaksBefore(s, k) \in SUBSET (1 .. k - 1)
  BY DEF Before, BreaksBefore
<1>2. LastOf(Before(s, k)) \in 0 .. k - 1
  BY <1>1, LastOfIs
<1>3. ColumnIn(s, k) \in Nat
  BY <1>2 DEF ColumnIn
<1>4. RowIn(s, k) \in Nat
  BY <1>1, OneMore DEF RowIn
<1> QED BY <1>3, <1>4

\* Later positions are in no earlier row.
LEMMA RowsGrow ==
    ASSUME NEW s, NEW k \in Nat \ {0}, NEW m \in Nat, k <= m
    PROVE  RowIn(s, k) <= RowIn(s, m)
<1>1. /\ BreaksBefore(s, m) \in SUBSET (1 .. m - 1)
      /\ BreaksBefore(s, k) \in SUBSET BreaksBefore(s, m)
      /\ m - 1 \in Nat
  BY DEF BreaksBefore
<1> QED BY <1>1, NoMore DEF RowIn

\* What stands behind a text does not move it.
LEMMA PlaceKept ==
    ASSUME NEW s \in Seq(Chars), NEW ch \in Chars, NEW t, t = Append(s, ch),
           NEW k \in 1 .. Len(s) + 1
    PROVE  ColumnIn(t, k) = ColumnIn(s, k) /\ RowIn(t, k) = RowIn(s, k)
<1>1. Len(s) \in Nat /\ \A j \in 1 .. Len(s) : t[j] = s[j]
  BY Appended
<1>2. \A m \in 1 .. Len(s) + 1 : Before(t, m) = Before(s, m)
  <2> TAKE m \in 1 .. Len(s) + 1
  <2>1. \A j \in 1 .. m - 1 : t[j] = s[j]
    BY <1>1
  <2> QED BY <2>1 DEF Before
<1>3. \A m \in 1 .. Len(s) + 1 : ColumnIn(t, m) = ColumnIn(s, m)
  BY <1>2, Zenon DEF ColumnIn
<1>4. \A j \in 1 .. k - 1 : BreaksIn(t, j) <=> BreaksIn(s, j)
  <2> TAKE j \in 1 .. k - 1
  <2>1. j \in 1 .. Len(s) /\ j \in 1 .. Len(s) + 1
    BY <1>1
  <2> QED BY <2>1, <1>1, <1>3, Zenon DEF BreaksIn
<1>5. BreaksBefore(t, k) = BreaksBefore(s, k)
  BY <1>4, Zenon DEF BreaksBefore
<1> QED BY <1>3, <1>5, Zenon DEF RowIn

\* Where the next character will stand.
LEMMA PlaceNext ==
    ASSUME NEW s \in Seq(Chars), NEW ch \in Chars, NEW t, t = Append(s, ch)
    PROVE  /\ ColumnIn(t, Len(s) + 2) = (IF ch = NL THEN 0 ELSE ColumnIn(s, Len(s) + 1) + 1)
           /\ RowIn(t, Len(s) + 2) = RowIn(s, Len(s) + 1)
                 + (IF ch = NL \/ ColumnIn(s, Len(s) + 1) % Cols = Cols - 1 THEN 1 ELSE 0)
<1> DEFINE n == Len(s)
<1>1. n \in Nat /\ t[n + 1] = ch /\ n + 1 \in 1 .. n + 1 /\ n + 2 - 1 = n + 1 /\ n + 1 - 1 = n
  BY Appended
<1>2. \A j \in 1 .. n : t[j] = s[j]
  BY Appended
<1>3. \A j \in 1 .. n + 2 - 1 : j \in 1 .. n + 1 - 1 \/ j = n + 1
  BY <1>1
<1>4. Before(s, n + 1) \in SUBSET (1 .. n) /\ BreaksBefore(s, n + 1) \in SUBSET (1 .. n)
  BY <1>1 DEF Before, BreaksBefore
<1>5. ColumnIn(t, n + 1) = ColumnIn(s, n + 1) /\ ColumnIn(s, n + 1) \in Nat
  <2>1. n + 1 \in 1 .. Len(s) + 1 /\ n + 1 \in Nat \ {0}
    BY <1>1
  <2> QED BY <2>1, PlaceKept, PlaceType
<1>6. ColumnIn(t, n + 2) = (IF ch = NL THEN 0 ELSE ColumnIn(s, n + 1) + 1)
  <2>1. CASE ch = NL
    <3>1. Before(t, n + 2) = Before(s, n + 1) \cup {n + 1}
      BY <1>1, <1>2, <1>3, <2>1 DEF Before
    <3>2. LastOf(Before(t, n + 2)) = n + 1
      BY <1>1, <1>4, <3>1, LastOfIs
    <3> QED BY <1>1, <2>1, <3>2 DEF ColumnIn
  <2>2. CASE ch # NL
    <3>1. Before(t, n + 2) = Before(s, n + 1)
      BY <1>1, <1>2, <1>3, <2>2 DEF Before
    <3>2. LastOf(Before(s, n + 1)) \in 0 .. n
      BY <1>1, <1>4, LastOfIs
    <3> QED BY <1>1, <2>2, <3>1, <3>2 DEF ColumnIn
  <2> QED BY <2>1, <2>2
<1>7. BreaksIn(t, n + 1) <=> ch = NL \/ ColumnIn(s, n + 1) % Cols = Cols - 1
  BY <1>1, <1>5, Zenon DEF BreaksIn
<1>8. \A j \in 1 .. n : BreaksIn(t, j) <=> BreaksIn(s, j)
  <2> TAKE j \in 1 .. n
  <2>1. j \in 1 .. Len(s) + 1
    BY <1>1
  <2>2. ColumnIn(t, j) = ColumnIn(s, j)
    BY <2>1, PlaceKept
  <2> QED BY <1>2, <2>2, Zenon DEF BreaksIn
<1>9. RowIn(t, n + 2) = RowIn(s, n + 1) + (IF BreaksIn(t, n + 1) THEN 1 ELSE 0)
  <2>1. CASE BreaksIn(t, n + 1)
    <3>1. BreaksBefore(t, n + 2) = BreaksBefore(s, n + 1) \cup {n + 1}
      BY <1>1, <1>3, <1>8, <2>1 DEF BreaksBefore
    <3> QED BY <1>1, <1>4, <2>1, <3>1, OneMore DEF RowIn
  <2>2. CASE ~BreaksIn(t, n + 1)
    <3>1. BreaksBefore(t, n + 2) = BreaksBefore(s, n + 1)
      BY <1>1, <1>3, <1>8, <2>2 DEF BreaksBefore
    <3>2. RowIn(s, n + 1) \in Nat
      BY <1>1, PlaceType
    <3> QED BY <2>2, <3>1, <3>2 DEF RowIn
  <2> QED BY <2>1, <2>2
<1> QED BY <1>6, <1>7, <1>9
-----------------------------------------------------------------------------
(* Pixels.                                                                 *)

\* Division gives quotient and remainder.
LEMMA Divided ==
    ASSUME NEW q \in Nat, NEW n \in Nat \ {0}, NEW m \in 0 .. n - 1
    PROVE  (q * n + m) \div n = q /\ (q * n + m) % n = m
OBVIOUS

\* A product grows with its factor.
LEMMA Times ==
    ASSUME NEW a \in Int, NEW b \in Int, NEW n \in Nat, a <= b
    PROVE  a * n <= b * n /\ a * n \in Int /\ b * n \in Int
<1>1. PICK d \in Nat : b = a + d
  <2>1. b - a \in Nat /\ b = a + (b - a)
    OBVIOUS
  <2> QED BY <2>1
<1>2. b * n = a * n + d * n /\ d * n \in Nat /\ a * n \in Int
  BY <1>1
<1> QED BY <1>2

\* So many cells of n, the last one begun, cover w.
LEMMA Ceiling ==
    ASSUME NEW w \in Nat \ {0}, NEW n \in Nat \ {0}, NEW c, c = ((w + n) - 1) \div n
    PROVE  /\ c \in Nat \ {0} /\ c * n \in Nat /\ (c - 1) * n \in Nat
           /\ (c - 1) * n = c * n - n /\ (c - 1) * n < w /\ w <= c * n
<1>1. PICK v \in Nat : v = (w + n) - 1
  <2>1. (w + n) - 1 \in Nat
    OBVIOUS
  <2> QED BY <2>1
<1>2. PICK m : m = v % n
  OBVIOUS
<1>3. c \in Nat /\ m \in 0 .. n - 1 /\ v = c * n + m
  BY <1>1, <1>2
<1>4. c * n \in Nat
  BY <1>3
<1>5. w <= c * n /\ c * n - n < w
  BY <1>1, <1>3, <1>4
<1>6. c # 0
  <2>1. 0 * n = 0
    OBVIOUS
  <2> QED BY <1>5, <2>1
<1>7. (c - 1) * n = c * n - n /\ c - 1 \in Nat /\ (c - 1) * n \in Nat
  BY <1>3, <1>6
<1> QED BY <1>3, <1>4, <1>5, <1>6, <1>7

\* What is assumed of the screen.
LEMMA ScreenConstants ==
    /\ Cols \in Nat \ {0} /\ Rows \in Nat \ {0}
    /\ CHAR_WIDTH \in Nat \ {0} /\ CHAR_HEIGHT \in Nat \ {0}
    /\ pitch \in Nat /\ CHAR_HEIGHT * pitch \in Nat /\ screen_height * pitch \in Nat
    /\ screen_width \in Nat /\ screen_height \in Nat /\ framebuffer_size \in Nat
    /\ Cols * CHAR_WIDTH \in Nat /\ (Cols - 1) * CHAR_WIDTH \in Nat
    /\ (Cols - 1) * CHAR_WIDTH = Cols * CHAR_WIDTH - CHAR_WIDTH
    /\ (Cols - 1) * CHAR_WIDTH < screen_width /\ screen_width <= Cols * CHAR_WIDTH
    /\ Rows * CHAR_HEIGHT \in Nat /\ (Rows - 1) * CHAR_HEIGHT \in Nat
    /\ (Rows - 1) * CHAR_HEIGHT = Rows * CHAR_HEIGHT - CHAR_HEIGHT
    /\ (Rows - 1) * CHAR_HEIGHT < screen_height /\ screen_height <= Rows * CHAR_HEIGHT
    /\ NOTHING \notin Chars /\ NL \in Chars
<1>1. /\ CHAR_WIDTH \in Nat \ {0} /\ CHAR_HEIGHT \in Nat \ {0}
      /\ screen_width \in Nat \ {0} /\ screen_height \in Nat \ {0} /\ pitch \in Nat
      /\ framebuffer_size \in Nat /\ NOTHING \notin Chars /\ NL \in Chars
  BY ConsoleAssumption
<1>2. CHAR_HEIGHT * pitch \in Nat /\ screen_height * pitch \in Nat
  BY <1>1
<1>3. /\ Cols \in Nat \ {0} /\ Cols * CHAR_WIDTH \in Nat /\ (Cols - 1) * CHAR_WIDTH \in Nat
      /\ (Cols - 1) * CHAR_WIDTH = Cols * CHAR_WIDTH - CHAR_WIDTH
      /\ (Cols - 1) * CHAR_WIDTH < screen_width /\ screen_width <= Cols * CHAR_WIDTH
  BY <1>1, Ceiling DEF Cols
<1>4. /\ Rows \in Nat \ {0} /\ Rows * CHAR_HEIGHT \in Nat /\ (Rows - 1) * CHAR_HEIGHT \in Nat
      /\ (Rows - 1) * CHAR_HEIGHT = Rows * CHAR_HEIGHT - CHAR_HEIGHT
      /\ (Rows - 1) * CHAR_HEIGHT < screen_height /\ screen_height <= Rows * CHAR_HEIGHT
  BY <1>1, Ceiling DEF Rows
<1> QED BY <1>1, <1>2, <1>3, <1>4

\* What a pixel can show: a character's, and which of its cell.
Glyphs == Chars \X PixelsOf(CHAR_WIDTH) \X PixelsOf(CHAR_HEIGHT)

\* Where p of the k-th character of a text is, if its row is r, and when it is
\* at a on a screen whose first row is top.
PlaceIn(s, k, r, p) ==
    At((ColumnIn(s, k) % Cols) * CHAR_WIDTH + p[2], r * CHAR_HEIGHT + p[3])
Draws(s, top, k, p, a) ==
    /\ s[k] = p[1] /\ p[1] # NL
    /\ PlaceIn(s, k, RowIn(s, k) - top, p) = a
    /\ PlaceIn(s, k, Min(RowIn(s, k), Rows - 1), p) \in OnScreen
ShownIn(s, top, a) == {p \in Glyphs : \E k \in DOMAIN s : Draws(s, top, k, p, a)}
-----------------------------------------------------------------------------
(* The text on the screen.                                                 *)

\* The row and the column of the character to come.
NextRow(s) == RowIn(s, Len(s) + 1)
NextColumn(s) == ColumnIn(s, Len(s) + 1) % Cols
TopOf(s) == IF NextRow(s) < Rows THEN 0 ELSE NextRow(s) - (Rows - 1)

\* The pixels show the rows of a text from one on.
PixelsShow(s, f, top) == DOMAIN f = OnScreen /\ \A a \in OnScreen : f[a] = ShownIn(s, top, a)

\* Framebuffer and cursor when the text s has been written.
ScreenShows(s, f, x, y) ==
    /\ x = NextColumn(s) * CHAR_WIDTH
    /\ y = (NextRow(s) - TopOf(s)) * CHAR_HEIGHT
    /\ PixelsShow(s, f, TopOf(s))

\* A character at the end of a row, or before it.
LEMMA NextInRow ==
    ASSUME NEW x \in Nat
    PROVE  /\ x % Cols \in 0 .. Cols - 1
           /\ (x + 1) % Cols = IF x % Cols = Cols - 1 THEN 0 ELSE (x % Cols) + 1
           /\ 0 % Cols = 0
<1>1. PICK q, m : q = x \div Cols /\ m = x % Cols
  OBVIOUS
<1>2. q \in Nat /\ m \in 0 .. Cols - 1 /\ x = q * Cols + m
  BY <1>1, ScreenConstants
<1>3. CASE m = Cols - 1
  <2>1. x + 1 = (q + 1) * Cols + 0
    BY <1>2, <1>3, ScreenConstants
  <2>2. 0 \in 0 .. Cols - 1 /\ q + 1 \in Nat
    BY <1>2, ScreenConstants
  <2>3. (x + 1) % Cols = 0
    BY <2>1, <2>2, Divided, ScreenConstants
  <2> QED BY <1>1, <1>2, <1>3, <2>3, ScreenConstants
<1>4. CASE m # Cols - 1
  <2>1. x + 1 = q * Cols + (m + 1) /\ m + 1 \in 0 .. Cols - 1
    <3>1. q * Cols \in Nat
      BY <1>2, ScreenConstants
    <3> QED BY <1>2, <1>4, <3>1, ScreenConstants
  <2>2. (x + 1) % Cols = m + 1
    BY <1>2, <2>1, Divided, ScreenConstants
  <2> QED BY <1>1, <1>2, <1>4, <2>2, ScreenConstants
<1> QED BY <1>3, <1>4

\* The place of the next character moves on by one, or to the next row.
LEMMA NextMoves ==
    ASSUME NEW s \in Seq(Chars), NEW ch \in Chars, NEW t, t = Append(s, ch)
    PROVE  /\ NextRow(s) \in Nat /\ NextColumn(s) \in 0 .. Cols - 1
           /\ ch = NL \/ NextColumn(s) = Cols - 1 =>
                 NextRow(t) = NextRow(s) + 1 /\ NextColumn(t) = 0
           /\ ~(ch = NL \/ NextColumn(s) = Cols - 1) =>
                 NextRow(t) = NextRow(s) /\ NextColumn(t) = NextColumn(s) + 1
<1>1. Len(s) \in Nat /\ Len(t) + 1 = Len(s) + 2 /\ Len(s) + 1 \in Nat \ {0}
  BY Appended
<1>2. PICK x \in Nat : x = ColumnIn(s, Len(s) + 1)
  BY <1>1, PlaceType
<1>3. NextRow(s) \in Nat
  BY <1>1, PlaceType DEF NextRow
<1>4. NextColumn(s) = x % Cols
  BY <1>1, <1>2 DEF NextColumn
<1>5. /\ ColumnIn(t, Len(s) + 2) = (IF ch = NL THEN 0 ELSE ColumnIn(s, Len(s) + 1) + 1)
      /\ RowIn(t, Len(s) + 2) = RowIn(s, Len(s) + 1)
            + (IF ch = NL \/ ColumnIn(s, Len(s) + 1) % Cols = Cols - 1 THEN 1 ELSE 0)
  BY PlaceNext
<1>6. ColumnIn(t, Len(s) + 2) = (IF ch = NL THEN 0 ELSE x + 1)
  BY <1>2, <1>5, Zenon
<1>7. NextRow(t) = NextRow(s) + (IF ch = NL \/ x % Cols = Cols - 1 THEN 1 ELSE 0)
  BY <1>1, <1>2, <1>5, Zenon DEF NextRow
<1>8. NextColumn(t) = (IF ch = NL THEN 0 ELSE x + 1) % Cols
  BY <1>1, <1>6, Zenon DEF NextColumn
<1>9. /\ x % Cols \in 0 .. Cols - 1
      /\ (x + 1) % Cols = IF x % Cols = Cols - 1 THEN 0 ELSE (x % Cols) + 1
      /\ 0 % Cols = 0
  BY NextInRow
<1> QED BY <1>3, <1>4, <1>7, <1>8, <1>9

\* A row below is so many pixels further, and what is below is not before.
LEMMA RowBelow ==
    ASSUME NEW s, NEW k \in Nat \ {0}, NEW p \in Glyphs, NEW r \in Int
    PROVE  /\ PlaceIn(s, k, r, p) \in Int
           /\ PlaceIn(s, k, r + 1, p) = PlaceIn(s, k, r, p) + CHAR_HEIGHT * pitch
           /\ \A q \in Int : r <= q => PlaceIn(s, k, r, p) <= PlaceIn(s, k, q, p)
<1>1. p[2] \in Nat /\ p[3] \in Nat
  BY ScreenConstants DEF Glyphs, PixelsOf
<1>2. PICK x \in Int : x = (ColumnIn(s, k) % Cols) * CHAR_WIDTH + p[2]
  <2>1. ColumnIn(s, k) % Cols \in Int
    BY PlaceType, NextInRow, ScreenConstants
  <2>2. (ColumnIn(s, k) % Cols) * CHAR_WIDTH \in Int
    BY <2>1, ScreenConstants
  <2> QED BY <1>1, <2>2
<1>3. PICK v : v = p[3]
  OBVIOUS
<1>4. \A q : PlaceIn(s, k, q, p) = (q * CHAR_HEIGHT + v) * pitch + x
  BY <1>2, <1>3, Zenon DEF PlaceIn, At
<1>5. r * CHAR_HEIGHT \in Int /\ (r + 1) * CHAR_HEIGHT = r * CHAR_HEIGHT + CHAR_HEIGHT
  BY ScreenConstants
<1>6. PICK y \in Int : y = r * CHAR_HEIGHT + v
  BY <1>1, <1>3, <1>5
<1>7. y * pitch \in Int /\ (y + CHAR_HEIGHT) * pitch = y * pitch + CHAR_HEIGHT * pitch
  BY <1>6, ScreenConstants
<1>8. PlaceIn(s, k, r, p) = y * pitch + x
  BY <1>4, <1>6, Zenon
<1>9. PlaceIn(s, k, r + 1, p) = (y + CHAR_HEIGHT) * pitch + x
  <2>1. (r + 1) * CHAR_HEIGHT + v = y + CHAR_HEIGHT
    BY <1>1, <1>3, <1>5, <1>6, ScreenConstants
  <2> QED BY <1>4, <2>1, Zenon
<1>10. ASSUME NEW q \in Int, r <= q PROVE PlaceIn(s, k, r, p) <= PlaceIn(s, k, q, p)
  <2>1. r * CHAR_HEIGHT <= q * CHAR_HEIGHT /\ q * CHAR_HEIGHT \in Int
    BY <1>10, Times, ScreenConstants
  <2>2. PICK z \in Int : z = q * CHAR_HEIGHT + v
    BY <1>1, <1>3, <2>1
  <2>3. y <= z
    BY <1>1, <1>3, <1>5, <1>6, <2>1, <2>2
  <2>4. y * pitch <= z * pitch /\ z * pitch \in Int
    BY <2>3, Times, ScreenConstants
  <2>5. PlaceIn(s, k, q, p) = z * pitch + x
    BY <1>4, <2>2, Zenon
  <2> QED BY <1>7, <1>8, <2>4, <2>5
<1>11. PlaceIn(s, k, r, p) \in Int
  BY <1>7, <1>8
<1>12. PlaceIn(s, k, r + 1, p) = PlaceIn(s, k, r, p) + CHAR_HEIGHT * pitch
  BY <1>7, <1>8, <1>9, ScreenConstants
<1> QED BY <1>10, <1>11, <1>12

\* What one more character adds to the pixel at a.
Added(s, ch, a) ==
    {p \in Glyphs :
        /\ p[1] = ch /\ ch # NL
        /\ a = At(NextColumn(s) * CHAR_WIDTH + p[2], (NextRow(s) - TopOf(s)) * CHAR_HEIGHT + p[3])}

\* A character more: it is drawn where the next one was to be, the others stay.
LEMMA ShownMore ==
    ASSUME NEW s \in Seq(Chars), NEW ch \in Chars, NEW t, t = Append(s, ch), NEW a \in OnScreen
    PROVE  ShownIn(t, TopOf(s), a) = ShownIn(s, TopOf(s), a) \cup Added(s, ch, a)
<1>1. /\ Len(s) \in Nat /\ DOMAIN s = 1 .. Len(s) /\ DOMAIN t = 1 .. Len(s) + 1
      /\ \A k \in 1 .. Len(s) : t[k] = s[k]
      /\ t[Len(s) + 1] = ch
  BY Appended
<1>2. PICK n \in Nat : n = Len(s)
  BY <1>1
<1>3. PICK R, C, T : R = NextRow(s) /\ C = NextColumn(s) /\ T = TopOf(s)
  OBVIOUS
<1>4. \A k \in 1 .. n + 1 : ColumnIn(t, k) = ColumnIn(s, k) /\ RowIn(t, k) = RowIn(s, k)
  BY <1>2, PlaceKept
<1>5. R \in Nat
  BY <1>3, NextMoves
<1>6. Min(R, Rows - 1) = R - T
  <2>1. T = IF R < Rows THEN 0 ELSE R - (Rows - 1)
    BY <1>3, Zenon DEF TopOf
  <2> QED BY <1>5, <2>1, ScreenConstants DEF Min
<1>7. ASSUME NEW p \in Glyphs, NEW k \in 1 .. n PROVE Draws(t, T, k, p, a) <=> Draws(s, T, k, p, a)
  <2>1. ColumnIn(t, k) = ColumnIn(s, k) /\ RowIn(t, k) = RowIn(s, k) /\ t[k] = s[k]
    <3>1. k \in 1 .. n + 1
      OBVIOUS
    <3> QED BY <1>1, <1>2, <1>4, <3>1
  <2> QED BY <2>1, Zenon DEF Draws, PlaceIn
<1>8. ASSUME NEW p \in Glyphs PROVE Draws(t, T, n + 1, p, a) <=> p \in Added(s, ch, a)
  <2>1. n + 1 \in 1 .. n + 1
    OBVIOUS
  <2>2. ColumnIn(t, n + 1) % Cols = C /\ RowIn(t, n + 1) = R
    BY <1>2, <1>3, <1>4, <2>1, Zenon DEF NextRow, NextColumn
  <2>3. \A r : PlaceIn(t, n + 1, r, p) = At(C * CHAR_WIDTH + p[2], r * CHAR_HEIGHT + p[3])
    BY <2>2, Zenon DEF PlaceIn
  <2>4. Draws(t, T, n + 1, p, a) <=>
           /\ ch = p[1] /\ p[1] # NL
           /\ At(C * CHAR_WIDTH + p[2], (R - T) * CHAR_HEIGHT + p[3]) = a
    <3>1. t[n + 1] = ch
      BY <1>1, <1>2
    <3>2. PlaceIn(t, n + 1, R - T, p) = At(C * CHAR_WIDTH + p[2], (R - T) * CHAR_HEIGHT + p[3])
      BY <2>3, Zenon
    <3>3. Draws(t, T, n + 1, p, a) <=>
             /\ t[n + 1] = p[1] /\ p[1] # NL
             /\ PlaceIn(t, n + 1, R - T, p) = a
             /\ PlaceIn(t, n + 1, R - T, p) \in OnScreen
      BY <1>6, <2>2, Zenon DEF Draws
    <3> QED BY <3>1, <3>2, <3>3, Zenon
  <2> QED BY <1>3, <2>4, Zenon DEF Added
<1>9. ASSUME NEW p PROVE p \in ShownIn(t, T, a) <=> p \in ShownIn(s, T, a) \/ p \in Added(s, ch, a)
  <2>1. \A k : k \in 1 .. n + 1 <=> k \in 1 .. n \/ k = n + 1
    OBVIOUS
  <2>2. p \in ShownIn(t, T, a) <=> p \in Glyphs /\ \E k \in 1 .. n + 1 : Draws(t, T, k, p, a)
    BY <1>1, <1>2, Zenon DEF ShownIn
  <2>3. p \in ShownIn(s, T, a) <=> p \in Glyphs /\ \E k \in 1 .. n : Draws(s, T, k, p, a)
    BY <1>1, <1>2, Zenon DEF ShownIn
  <2>4. p \in Added(s, ch, a) => p \in Glyphs
    BY Zenon DEF Added
  <2> QED BY <1>7, <1>8, <2>1, <2>2, <2>3, <2>4, Zenon
<1> QED BY <1>3, <1>9

\* After scrolling the pixels show the rows from the next one on, if nothing
\* is below the last row: what was cut off does not come back.
LEMMA ShownScrolled ==
    ASSUME NEW t \in Seq(Chars), NEW T \in Nat, NEW f, PixelsShow(t, f, T),
           \A k \in DOMAIN t : RowIn(t, k) - T <= Rows - 1
    PROVE  PixelsShow(t, Scrolled(f), T + 1)
<1>1. DOMAIN f = OnScreen /\ DOMAIN Scrolled(f) = OnScreen
  BY DEF PixelsShow, Scrolled
<1>2. PICK h \in Nat : h = CHAR_HEIGHT * pitch
  BY ScreenConstants
<1>3. ASSUME NEW a \in OnScreen PROVE Scrolled(f)[a] = ShownIn(t, T + 1, a)
  <2>1. a \in Nat /\ a + h \in Nat
    BY <1>2, ScreenConstants DEF OnScreen, PixelsOf
  <2>2. ASSUME NEW k \in DOMAIN t, NEW p \in Glyphs
        PROVE  Draws(t, T + 1, k, p, a) <=> Draws(t, T, k, p, a + h)
    <3>1. k \in Nat \ {0}
      BY LenProperties
    <3>2. RowIn(t, k) \in Nat
      BY <3>1, PlaceType
    <3>3. PICK r \in Int : r = RowIn(t, k) - (T + 1)
      BY <3>2
    <3>4. RowIn(t, k) - T = r + 1
      BY <3>2, <3>3
    <3>5. PlaceIn(t, k, r, p) \in Int /\ PlaceIn(t, k, r + 1, p) = PlaceIn(t, k, r, p) + h
      BY <1>2, <3>1, RowBelow
    <3>6. PlaceIn(t, k, r, p) = a <=> PlaceIn(t, k, r + 1, p) = a + h
      BY <1>2, <2>1, <3>5
    <3> QED BY <3>3, <3>4, <3>6, Zenon DEF Draws
  <2>3. CASE a + h \in OnScreen
    <3>1. Scrolled(f)[a] = f[a + h]
      BY <1>1, <1>2, <2>3, Zenon DEF Scrolled
    <3>2. f[a + h] = ShownIn(t, T, a + h)
      BY <2>3 DEF PixelsShow
    <3>3. ShownIn(t, T + 1, a) = ShownIn(t, T, a + h)
      BY <2>2, Zenon DEF ShownIn
    <3> QED BY <3>1, <3>2, <3>3
  <2>4. CASE a + h \notin OnScreen
    <3>1. Scrolled(f)[a] = {}
      BY <1>1, <1>2, <2>4, Zenon DEF Scrolled, Blank
    <3>2. a + h >= screen_height * pitch
      BY <2>1, <2>4, ScreenConstants DEF OnScreen, PixelsOf
    <3>3. ASSUME NEW k \in DOMAIN t, NEW p \in Glyphs, Draws(t, T, k, p, a + h) PROVE FALSE
      <4>1. k \in Nat \ {0}
        BY LenProperties
      <4>2. PICK q \in Nat : q = RowIn(t, k)
        BY <4>1, PlaceType
      <4>3. PICK m \in Int : m = Min(q, Rows - 1)
        BY ScreenConstants DEF Min
      <4>4. q - T \in Int /\ q - T <= m
        BY <4>2, <4>3, ScreenConstants DEF Min
      <4>5. PlaceIn(t, k, q - T, p) <= PlaceIn(t, k, m, p) /\ PlaceIn(t, k, m, p) \in Int
        BY <4>1, <4>4, RowBelow
      <4>6. PlaceIn(t, k, q - T, p) = a + h /\ PlaceIn(t, k, m, p) \in OnScreen
        BY <3>3, <4>2, <4>3, Zenon DEF Draws
      <4>7. PlaceIn(t, k, m, p) < screen_height * pitch
        BY <4>5, <4>6, ScreenConstants DEF OnScreen, PixelsOf
      <4> QED BY <2>1, <3>2, <4>5, <4>6, <4>7, ScreenConstants
    <3>4. ShownIn(t, T + 1, a) = {}
      BY <2>2, <3>3, Zenon DEF ShownIn
    <3> QED BY <3>1, <3>4
  <2> QED BY <2>3, <2>4
<1> QED BY <1>1, <1>3, Zenon DEF PixelsShow

\* The cursor's row and column, and what they say of the screen's edges.
LEMMA CursorIs ==
    ASSUME NEW s \in Seq(Chars), NEW x, NEW y,
           x = NextColumn(s) * CHAR_WIDTH, y = (NextRow(s) - TopOf(s)) * CHAR_HEIGHT
    PROVE  /\ TopOf(s) \in Nat /\ NextRow(s) - TopOf(s) \in 0 .. Rows - 1
           /\ x \in Nat /\ (x + CHAR_WIDTH >= screen_width <=> NextColumn(s) = Cols - 1)
           /\ y \in Nat /\ (y + CHAR_HEIGHT >= screen_height <=> NextRow(s) - TopOf(s) = Rows - 1)
           /\ x + CHAR_WIDTH = (NextColumn(s) + 1) * CHAR_WIDTH
           /\ y + CHAR_HEIGHT = ((NextRow(s) - TopOf(s)) + 1) * CHAR_HEIGHT
           /\ x + CHAR_WIDTH <= Cols * CHAR_WIDTH /\ y + CHAR_HEIGHT <= Rows * CHAR_HEIGHT
<1>1. PICK R, C, T : R = NextRow(s) /\ C = NextColumn(s) /\ T = TopOf(s)
  OBVIOUS
<1>2. R \in Nat /\ C \in 0 .. Cols - 1
  <2>1. Append(s, NL) = Append(s, NL) /\ NL \in Chars
    BY ScreenConstants
  <2> QED BY <1>1, <2>1, NextMoves
<1>3. T \in Nat /\ R - T \in 0 .. Rows - 1
  <2>1. T = IF R < Rows THEN 0 ELSE R - (Rows - 1)
    BY <1>1, Zenon DEF TopOf
  <2> QED BY <1>2, <2>1, ScreenConstants
<1>4. PICK row \in Nat : row = R - T
  BY <1>3
<1>5. ASSUME NEW c \in Nat, NEW k \in Nat \ {0}, NEW n \in Nat \ {0}, NEW w \in Nat, c <= k - 1,
             (k - 1) * n = k * n - n, (k - 1) * n < w, w <= k * n, k * n \in Nat
      PROVE  /\ c * n \in Nat /\ c * n + n = (c + 1) * n
             /\ (c * n + n >= w <=> c = k - 1)
             /\ c * n + n <= k * n
  <2>1. c * n \in Nat /\ (c + 1) * n = c * n + n
    OBVIOUS
  <2>2. CASE c = k - 1
    <3>1. c * n = k * n - n
      BY <1>5, <2>2
    <3> QED BY <1>5, <2>1, <2>2, <3>1
  <2>3. CASE c # k - 1
    <3>1. c + 1 <= k - 1 /\ c + 1 \in Int /\ k - 1 \in Int
      BY <1>5, <2>3
    <3>2. (c + 1) * n <= (k - 1) * n
      BY <3>1, Times
    <3> QED BY <1>5, <2>1, <2>3, <3>2
  <2> QED BY <2>2, <2>3
<1>6. /\ x \in Nat /\ x + CHAR_WIDTH = (C + 1) * CHAR_WIDTH
      /\ (x + CHAR_WIDTH >= screen_width <=> C = Cols - 1)
      /\ x + CHAR_WIDTH <= Cols * CHAR_WIDTH
  <2>1. C \in Nat /\ C <= Cols - 1 /\ x = C * CHAR_WIDTH
    BY <1>1, <1>2, ScreenConstants
  <2> QED BY <1>5, <2>1, ScreenConstants
<1>7. /\ y \in Nat /\ y + CHAR_HEIGHT = (row + 1) * CHAR_HEIGHT
      /\ (y + CHAR_HEIGHT >= screen_height <=> row = Rows - 1)
      /\ y + CHAR_HEIGHT <= Rows * CHAR_HEIGHT
  <2>1. row <= Rows - 1 /\ y = row * CHAR_HEIGHT
    BY <1>1, <1>3, <1>4, ScreenConstants
  <2> QED BY <1>5, <2>1, ScreenConstants
<1> QED BY <1>1, <1>3, <1>4, <1>6, <1>7

\* One character through efifb_put_char.
LEMMA ScreenStep ==
    ASSUME NEW s \in Seq(Chars), ScreenShows(s, framebuffer, cursor_x, cursor_y),
           NEW ch \in Chars, NEW t, t = Append(s, ch),
           IF ch = NL THEN NewLine(framebuffer)
           ELSE IF cursor_x + CHAR_WIDTH >= screen_width THEN NewLine(Drawn(ch))
           ELSE /\ framebuffer' = Drawn(ch)
                /\ cursor_x' = cursor_x + CHAR_WIDTH /\ UNCHANGED cursor_y
    PROVE  ScreenShows(t, framebuffer', cursor_x', cursor_y')
<1>1. PICK R, C, T : R = NextRow(s) /\ C = NextColumn(s) /\ T = TopOf(s)
  OBVIOUS
<1>2. /\ R \in Nat /\ C \in 0 .. Cols - 1
      /\ ch = NL \/ C = Cols - 1 => NextRow(t) = R + 1 /\ NextColumn(t) = 0
      /\ ~(ch = NL \/ C = Cols - 1) => NextRow(t) = R /\ NextColumn(t) = C + 1
  BY <1>1, NextMoves
<1>3. PICK row : row = R - T
  OBVIOUS
<1>4. /\ cursor_x = C * CHAR_WIDTH /\ cursor_y = row * CHAR_HEIGHT
      /\ PixelsShow(s, framebuffer, T)
  BY <1>1, <1>3, Zenon DEF ScreenShows
<1>5. /\ T \in Nat /\ row \in 0 .. Rows - 1
      /\ cursor_x + CHAR_WIDTH >= screen_width <=> C = Cols - 1
      /\ cursor_y + CHAR_HEIGHT >= screen_height <=> row = Rows - 1
      /\ cursor_x + CHAR_WIDTH = (C + 1) * CHAR_WIDTH
      /\ cursor_y + CHAR_HEIGHT = (row + 1) * CHAR_HEIGHT
  <2>1. cursor_x = NextColumn(s) * CHAR_WIDTH /\ cursor_y = (NextRow(s) - TopOf(s)) * CHAR_HEIGHT
    BY <1>1, <1>3, <1>4
  <2> QED BY <1>1, <1>3, <2>1, CursorIs
<1>6. T = (IF R < Rows THEN 0 ELSE R - (Rows - 1))
  BY <1>1, Zenon DEF TopOf
\* The screen after drawing: the text with the character, in the rows of before.
<1>7. ch # NL => PixelsShow(t, Drawn(ch), T)
  <2> SUFFICES ASSUME ch # NL PROVE PixelsShow(t, Drawn(ch), T)
    OBVIOUS
  <2>1. DOMAIN framebuffer = OnScreen /\ DOMAIN Drawn(ch) = OnScreen
    BY <1>4 DEF Drawn, PixelsShow
  <2>2. ASSUME NEW a \in OnScreen PROVE Drawn(ch)[a] = ShownIn(t, T, a)
    <3>1. PICK D : D = {p \in {ch} \X PixelsOf(CHAR_WIDTH) \X PixelsOf(CHAR_HEIGHT) :
                           a = At(cursor_x + p[2], cursor_y + p[3])}
      OBVIOUS
    <3>2. Drawn(ch)[a] = framebuffer[a] \cup D
      BY <2>1, <3>1, Zenon DEF Drawn
    <3>3. \A p : p \in {ch} \X PixelsOf(CHAR_WIDTH) \X PixelsOf(CHAR_HEIGHT) <=> p \in Glyphs /\ p[1] = ch
      BY DEF Glyphs
    <3>4. D = Added(s, ch, a)
      BY <1>1, <1>3, <1>4, <3>1, <3>3, Zenon DEF Added
    <3>5. framebuffer[a] = ShownIn(s, T, a)
      BY <1>4, Zenon DEF PixelsShow
    <3>6. ShownIn(t, T, a) = ShownIn(s, T, a) \cup Added(s, ch, a)
      <4>1. ShownIn(t, TopOf(s), a) = ShownIn(s, TopOf(s), a) \cup Added(s, ch, a)
        BY ShownMore
      <4> QED BY <1>1, <4>1, Zenon
    <3> QED BY <3>2, <3>4, <3>5, <3>6
  <2> QED BY <2>1, <2>2, Zenon DEF PixelsShow
<1>8. ch = NL => PixelsShow(t, framebuffer, T)
  <2> SUFFICES ASSUME ch = NL PROVE PixelsShow(t, framebuffer, T)
    OBVIOUS
  <2>1. ASSUME NEW a \in OnScreen PROVE framebuffer[a] = ShownIn(t, T, a)
    <3>1. Added(s, ch, a) = {}
      BY Zenon DEF Added
    <3>2. ShownIn(t, T, a) = ShownIn(s, T, a) \cup Added(s, ch, a)
      <4>1. ShownIn(t, TopOf(s), a) = ShownIn(s, TopOf(s), a) \cup Added(s, ch, a)
        BY ShownMore
      <4> QED BY <1>1, <4>1, Zenon
    <3>3. framebuffer[a] = ShownIn(s, T, a)
      BY <1>4, Zenon DEF PixelsShow
    <3> QED BY <3>1, <3>2, <3>3
  <2> QED BY <1>4, <2>1, Zenon DEF PixelsShow
\* A new row, with or without scrolling.
<1>9. ASSUME NEW f, PixelsShow(t, f, T), NewLine(f), ch = NL \/ C = Cols - 1
      PROVE  ScreenShows(t, framebuffer', cursor_x', cursor_y')
  <2>1. NextRow(t) = R + 1 /\ NextColumn(t) = 0
    BY <1>2, <1>9
  <2>2. cursor_x' = NextColumn(t) * CHAR_WIDTH
    <3>1. cursor_x' = 0
      BY <1>9, Zenon DEF NewLine
    <3> QED BY <2>1, <3>1, ScreenConstants
  <2>3. TopOf(t) = IF R + 1 < Rows THEN 0 ELSE (R + 1) - (Rows - 1)
    BY <2>1, Zenon DEF TopOf
  <2>4. CASE row = Rows - 1
    <3>1. TopOf(t) = T + 1 /\ NextRow(t) - TopOf(t) = row
      BY <1>2, <1>3, <1>5, <1>6, <2>1, <2>3, <2>4, ScreenConstants
    <3>2. framebuffer' = Scrolled(f) /\ cursor_y' = cursor_y
      BY <1>5, <1>9, <2>4, Zenon DEF NewLine
    <3>3. \A k \in DOMAIN t : RowIn(t, k) - T <= Rows - 1
      <4> TAKE k \in DOMAIN t
      <4>1. /\ Len(s) \in Nat /\ DOMAIN t = 1 .. Len(s) + 1
        BY Appended
      <4>2. k \in 1 .. Len(s) + 1 /\ k \in Nat \ {0} /\ k <= Len(s) + 1 /\ Len(s) + 1 \in Nat
        BY <4>1
      <4>3. RowIn(t, k) = RowIn(s, k) /\ RowIn(s, k) \in Nat
        BY <4>2, PlaceKept, PlaceType
      <4>4. RowIn(s, k) <= R
        BY <1>1, <4>2, RowsGrow DEF NextRow
      <4> QED BY <1>2, <1>3, <1>5, <2>4, <4>3, <4>4, ScreenConstants
    <3>4. t \in Seq(Chars)
      BY Appended
    <3>5. PixelsShow(t, Scrolled(f), T + 1)
      BY <1>5, <1>9, <3>3, <3>4, ShownScrolled
    <3>6. cursor_y' = (NextRow(t) - TopOf(t)) * CHAR_HEIGHT
      BY <1>4, <3>1, <3>2, Zenon
    <3>7. PixelsShow(t, framebuffer', TopOf(t))
      BY <3>1, <3>2, <3>5, Zenon
    <3> QED BY <2>2, <3>6, <3>7, Zenon DEF ScreenShows
  <2>5. CASE row # Rows - 1
    <3>1. TopOf(t) = T /\ NextRow(t) - TopOf(t) = row + 1
      BY <1>2, <1>3, <1>5, <1>6, <2>1, <2>3, <2>5, ScreenConstants
    <3>2. framebuffer' = f /\ cursor_y' = cursor_y + CHAR_HEIGHT
      BY <1>5, <1>9, <2>5, Zenon DEF NewLine
    <3>3. cursor_y' = (NextRow(t) - TopOf(t)) * CHAR_HEIGHT
      BY <1>5, <3>1, <3>2, Zenon
    <3>4. PixelsShow(t, framebuffer', TopOf(t))
      BY <1>9, <3>1, <3>2, Zenon
    <3> QED BY <2>2, <3>3, <3>4, Zenon DEF ScreenShows
  <2> QED BY <2>4, <2>5
<1>10. CASE ch = NL
  <2>1. NewLine(framebuffer)
    BY <1>10, Zenon
  <2> QED BY <1>8, <1>9, <1>10, <2>1, Zenon
<1>11. CASE ch # NL /\ C = Cols - 1
  <2>1. NewLine(Drawn(ch))
    BY <1>5, <1>11, Zenon
  <2> QED BY <1>7, <1>9, <1>11, <2>1, Zenon
<1>12. CASE ch # NL /\ C # Cols - 1
  <2>1. framebuffer' = Drawn(ch) /\ cursor_x' = cursor_x + CHAR_WIDTH /\ cursor_y' = cursor_y
    BY <1>5, <1>12, Zenon
  <2>2. NextRow(t) = R /\ NextColumn(t) = C + 1
    BY <1>2, <1>12, Zenon
  <2>3. TopOf(t) = T
    BY <1>1, <2>2, Zenon DEF TopOf
  <2>4. cursor_x' = NextColumn(t) * CHAR_WIDTH /\ cursor_y' = (NextRow(t) - TopOf(t)) * CHAR_HEIGHT
    BY <1>3, <1>4, <1>5, <2>1, <2>2, <2>3, Zenon
  <2>5. PixelsShow(t, framebuffer', TopOf(t))
    BY <1>7, <1>12, <2>1, <2>3, Zenon
  <2> QED BY <2>4, <2>5, Zenon DEF ScreenShows
<1> QED BY <1>10, <1>11, <1>12

\* A character sticks out of the framebuffer only if whole cells do.
LEMMA StuckOut ==
    ASSUME NEW s \in Seq(Chars), ScreenShows(s, framebuffer, cursor_x, cursor_y),
           At(cursor_x + CHAR_WIDTH - 1, cursor_y + CHAR_HEIGHT - 1) >= framebuffer_size
    PROVE  At(Cols * CHAR_WIDTH, Rows * CHAR_HEIGHT - 1) > framebuffer_size
<1>1. PICK x, y : x = cursor_x /\ y = cursor_y
  OBVIOUS
<1>2. x \in Nat /\ y \in Nat /\ x + CHAR_WIDTH <= Cols * CHAR_WIDTH /\ y + CHAR_HEIGHT <= Rows * CHAR_HEIGHT
  <2>1. x = NextColumn(s) * CHAR_WIDTH /\ y = (NextRow(s) - TopOf(s)) * CHAR_HEIGHT
    BY <1>1, Zenon DEF ScreenShows
  <2> QED BY <2>1, CursorIs
<1>3. PICK a, b \in Int : a = y + CHAR_HEIGHT - 1 /\ b = Rows * CHAR_HEIGHT - 1
  BY <1>2, ScreenConstants
<1>4. a <= b
  BY <1>2, <1>3, ScreenConstants
<1>5. a * pitch <= b * pitch /\ a * pitch \in Int /\ b * pitch \in Int
  BY <1>3, <1>4, Times, ScreenConstants
<1>6. a * pitch + (x + CHAR_WIDTH - 1) >= framebuffer_size
  BY <1>1, <1>3, Zenon DEF At
<1>7. At(Cols * CHAR_WIDTH, Rows * CHAR_HEIGHT - 1) = b * pitch + Cols * CHAR_WIDTH
  BY <1>3, Zenon DEF At
<1> QED BY <1>2, <1>5, <1>6, <1>7, ScreenConstants
-----------------------------------------------------------------------------
(* What the serial port has sent.                                          *)

Wire == Chars \cup {CR}

\* The k-th character is behind those before it, a CR for each NL up to it.
PortSent(o, s) ==
    /\ s \in Seq(Wire)
    /\ Len(s) = Len(o) + Ends(o, Len(o))
    /\ \A k \in DOMAIN o :
          /\ s[k + Ends(o, k)] = o[k]
          /\ o[k] = NL => s[(k + Ends(o, k)) - 1] = CR

\* Ends of line are counted one by one.
LEMMA EndsAre ==
    ASSUME NEW o, NEW n \in Nat, NEW k \in 1 .. n
    PROVE  /\ Ends(o, k) \in Nat /\ Ends(o, n) \in Nat /\ Ends(o, k) <= Ends(o, n)
           /\ o[k] = NL => Ends(o, k) >= 1
<1>1. PICK S, T : S = {j \in 1 .. k : o[j] = NL} /\ T = {j \in 1 .. n : o[j] = NL}
  OBVIOUS
<1>2. T \in SUBSET (1 .. n) /\ S \in SUBSET T
  BY <1>1
<1>3. Cardinality(S) \in Nat /\ Cardinality(T) \in Nat /\ Cardinality(S) <= Cardinality(T)
  BY <1>2, NoMore
<1>4. o[k] = NL => Cardinality(S) >= 1
  <2> SUFFICES ASSUME o[k] = NL PROVE Cardinality(S) >= 1
    OBVIOUS
  <2>1. PICK m \in Nat : k = m + 1
    <3>1. k - 1 \in Nat /\ k = (k - 1) + 1
      OBVIOUS
    <3> QED BY <3>1
  <2>2. PICK U : U = {j \in 1 .. m : o[j] = NL}
    OBVIOUS
  <2>3. U \in SUBSET (1 .. m) /\ S = U \cup {m + 1}
    BY <1>1, <2>1, <2>2
  <2> QED BY <2>3, OneMore
<1> QED BY <1>1, <1>3, <1>4, Zenon DEF Ends

\* One character through uart_poll_put_char.
LEMMA PortStep ==
    ASSUME NEW o \in Seq(Chars), NEW s, PortSent(o, s), NEW ch \in Chars
    PROVE  PortSent(Append(o, ch), s \o IF ch = NL THEN <<CR, NL>> ELSE <<ch>>)
<1>1. PICK p : p = Append(o, ch)
  OBVIOUS
<1>2. PICK w : w = IF ch = NL THEN <<CR, NL>> ELSE <<ch>>
  OBVIOUS
<1>3. PICK n \in Nat : n = Len(o)
  BY LenProperties
<1>4. /\ Len(p) = n + 1 /\ DOMAIN o = 1 .. n /\ DOMAIN p = 1 .. n + 1
      /\ \A k \in 1 .. n : p[k] = o[k]
      /\ p[n + 1] = ch
  BY <1>1, <1>3, Appended
<1>5. /\ s \in Seq(Wire) /\ Len(s) = n + Ends(o, n)
      /\ \A k \in 1 .. n : /\ s[k + Ends(o, k)] = o[k]
                           /\ o[k] = NL => s[(k + Ends(o, k)) - 1] = CR
  BY <1>3, <1>4, Zenon DEF PortSent
<1>6. w \in Seq(Wire) /\ Len(w) = (IF ch = NL THEN 2 ELSE 1)
      /\ (ch = NL => w[1] = CR /\ w[2] = NL) /\ (ch # NL => w[1] = ch)
  <2>1. CASE ch = NL
    <3>1. w = <<CR, NL>> /\ CR \in Wire /\ NL \in Wire
      BY <1>2, <2>1, ScreenConstants DEF Wire
    <3> QED BY <2>1, <3>1
  <2>2. CASE ch # NL
    <3>1. w = <<ch>> /\ ch \in Wire
      BY <1>2, <2>2 DEF Wire
    <3> QED BY <2>2, <3>1
  <2> QED BY <2>1, <2>2
<1>7. PICK z : z = s \o w
  OBVIOUS
<1>8. /\ z \in Seq(Wire) /\ Len(z) = Len(s) + Len(w)
      /\ \A j \in 1 .. Len(s) + Len(w) : z[j] = IF j <= Len(s) THEN s[j] ELSE w[j - Len(s)]
  BY <1>5, <1>6, <1>7, ConcatProperties
<1>9. Ends(o, n) \in Nat
  <2>1. {j \in 1 .. n : o[j] = NL} \in SUBSET (1 .. n)
    OBVIOUS
  <2> QED BY <2>1, OneMore DEF Ends
<1>10. \A k \in 1 .. n : Ends(p, k) = Ends(o, k)
  <2> TAKE k \in 1 .. n
  <2>1. \A j \in 1 .. k : p[j] = o[j]
    BY <1>4
  <2>2. {j \in 1 .. k : p[j] = NL} = {j \in 1 .. k : o[j] = NL}
    BY <2>1
  <2> QED BY <2>2, Zenon DEF Ends
<1>11. Ends(p, n + 1) = Ends(o, n) + (IF ch = NL THEN 1 ELSE 0)
  <2>1. PICK S, T : S = {j \in 1 .. n : o[j] = NL} /\ T = {j \in 1 .. n + 1 : p[j] = NL}
    OBVIOUS
  <2>2. S \in SUBSET (1 .. n) /\ (\A j \in 1 .. n + 1 : j \in 1 .. n \/ j = n + 1)
    BY <2>1
  <2>3. T = IF ch = NL THEN S \cup {n + 1} ELSE S
    BY <1>4, <2>1, <2>2
  <2>4. Ends(o, n) = Cardinality(S) /\ Ends(p, n + 1) = Cardinality(T)
    BY <2>1, Zenon DEF Ends
  <2>5. Cardinality(S) \in Nat /\ Cardinality(S \cup {n + 1}) = Cardinality(S) + 1
    BY <2>2, OneMore
  <2> QED BY <2>3, <2>4, <2>5
<1>12. Len(z) = Len(p) + Ends(p, Len(p))
  <2>1. Len(z) = (n + Ends(o, n)) + (IF ch = NL THEN 2 ELSE 1)
    BY <1>5, <1>6, <1>8, Zenon
  <2>2. Len(p) + Ends(p, Len(p)) = (n + 1) + (Ends(o, n) + (IF ch = NL THEN 1 ELSE 0))
    BY <1>4, <1>11, Zenon
  <2> QED BY <1>9, <2>1, <2>2
<1>13. ASSUME NEW k \in 1 .. n + 1
       PROVE  z[k + Ends(p, k)] = p[k] /\ (p[k] = NL => z[(k + Ends(p, k)) - 1] = CR)
  <2>1. CASE k \in 1 .. n
    <3>1. Ends(o, k) \in Nat /\ Ends(o, k) <= Ends(o, n) /\ (o[k] = NL => Ends(o, k) >= 1)
      BY <2>1, EndsAre
    <3>2. Ends(p, k) = Ends(o, k) /\ p[k] = o[k]
      BY <1>4, <1>10, <2>1
    <3>3. PICK m \in Nat : m = k + Ends(o, k)
      BY <3>1
    <3>4. m \in 1 .. Len(s) /\ (o[k] = NL => m - 1 \in 1 .. Len(s))
      BY <1>5, <1>9, <2>1, <3>1, <3>3
    <3>5. \A j \in 1 .. Len(s) : z[j] = s[j]
      <4>1. Len(s) \in Nat /\ Len(w) \in Nat
        BY <1>5, <1>6, <1>9
      <4> QED BY <1>8, <4>1
    <3>6. s[m] = o[k] /\ (o[k] = NL => s[m - 1] = CR)
      BY <1>5, <2>1, <3>3
    <3> QED BY <3>2, <3>3, <3>4, <3>5, <3>6
  <2>2. CASE k = n + 1
    <3>1. CASE ch = NL
      <4>1. k + Ends(p, k) = Len(s) + 2 /\ Len(s) \in Nat
        BY <1>5, <1>9, <1>11, <2>2, <3>1
      <4>2. z[Len(s) + 2] = w[2] /\ z[Len(s) + 1] = w[1]
        <5>1. Len(w) = 2
          BY <1>6, <3>1
        <5>2. PICK m \in Nat : m = Len(s)
          BY <4>1
        <5>3. \A j \in 1 .. m + 2 : z[j] = IF j <= m THEN s[j] ELSE w[j - m]
          BY <1>8, <5>1, <5>2, Zenon
        <5>4. z[m + 2] = w[(m + 2) - m] /\ z[m + 1] = w[(m + 1) - m]
          BY <5>3
        <5>5. (m + 2) - m = 2 /\ (m + 1) - m = 1
          OBVIOUS
        <5> QED BY <5>2, <5>4, <5>5, Zenon
      <4>3. (k + Ends(p, k)) - 1 = Len(s) + 1
        BY <4>1
      <4> QED BY <1>4, <1>6, <2>2, <3>1, <4>1, <4>2, <4>3
    <3>2. CASE ch # NL
      <4>1. k + Ends(p, k) = Len(s) + 1 /\ Len(s) \in Nat
        BY <1>5, <1>9, <1>11, <2>2, <3>2
      <4>2. z[Len(s) + 1] = w[1]
        BY <1>6, <1>8, <3>2, <4>1
      <4> QED BY <1>4, <1>6, <2>2, <3>2, <4>1, <4>2
    <3> QED BY <3>1, <3>2
  <2> QED BY <2>1, <2>2
<1>14. PortSent(p, z)
  BY <1>4, <1>8, <1>12, <1>13, Zenon DEF PortSent
<1> QED BY <1>1, <1>2, <1>7, <1>14
-----------------------------------------------------------------------------
(* The devices.                                                            *)

DeviceInv ==
    /\ pc \in Boot => sent = <<>>
    /\ active_console = "tty" /\ pc # "fault" => ScreenShows(out, framebuffer, cursor_x, cursor_y)
    /\ pc = "fault" => At(Cols * CHAR_WIDTH, Rows * CHAR_HEIGHT - 1) > framebuffer_size
    /\ active_console = "ttyS" => PortSent(out, sent)

\* Before anything is written a cleared screen and a silent port are right.
LEMMA NothingYet == ScreenShows(<<>>, Cleared, 0, 0) /\ PortSent(<<>>, <<>>)
<1>1. /\ <<>> \in Seq(Chars) /\ <<>> \in Seq(Wire) /\ Len(<<>>) = 0 /\ DOMAIN <<>> = {}
      /\ 1 .. 0 = {} /\ 0 + 1 = 1 /\ 1 - 1 = 0
  OBVIOUS
<1>2. Ends(<<>>, 0) = 0
  <2>1. {j \in 1 .. 0 : <<>>[j] = NL} = {}
    BY <1>1
  <2> QED BY <2>1, FS_EmptySet DEF Ends
<1>3. PortSent(<<>>, <<>>)
  BY <1>1, <1>2 DEF PortSent
<1>4. NextRow(<<>>) = 0 /\ NextColumn(<<>>) = 0
  <2>1. Before(<<>>, 1) = {} /\ BreaksBefore(<<>>, 1) = {}
    BY <1>1 DEF Before, BreaksBefore
  <2>2. LastOf({}) = 0
    BY Zenon DEF LastOf
  <2>3. ColumnIn(<<>>, 1) = 0 /\ RowIn(<<>>, 1) = 0
    <3>1. Cardinality({}) = 0
      BY FS_EmptySet
    <3>2. ColumnIn(<<>>, 1) = 1 - 1 - 0
      BY <2>1, <2>2, Zenon DEF ColumnIn
    <3>3. RowIn(<<>>, 1) = 0
      BY <2>1, <3>1, Zenon DEF RowIn
    <3> QED BY <3>2, <3>3
  <2>4. 0 % Cols = 0
    BY NextInRow, 0 \in Nat
  <2> QED BY <1>1, <2>3, <2>4, Zenon DEF NextRow, NextColumn
<1>5. TopOf(<<>>) = 0
  BY <1>4, ScreenConstants DEF TopOf
<1>6. PixelsShow(<<>>, Cleared, 0)
  <2>1. \A a : ShownIn(<<>>, 0, a) = {}
    BY <1>1 DEF ShownIn
  <2> QED BY <2>1, Zenon DEF PixelsShow, Cleared, Blank
<1>7. 0 * CHAR_WIDTH = 0 /\ (0 - 0) * CHAR_HEIGHT = 0
  BY ScreenConstants
<1>8. ScreenShows(<<>>, Cleared, 0, 0)
  BY <1>4, <1>5, <1>6, <1>7, Zenon DEF ScreenShows
<1> QED BY <1>3, <1>8

\* The choice of a console: nothing is written, and a screen begins cleared.
LEMMA DeviceBoot == ASSUME LogInv, DeviceInv, BootStep PROVE DeviceInv'
<1>1. pc \in Boot
  BY Zenon DEF BootStep, console_setup, add_preferred_console, console_init, RegisterPort,
     PortsDone, TrySkip, TryEnable, TryEnd, CtorsDone, Boot
<1>2. UNCHANGED log
  BY Zenon DEF BootStep, console_setup, add_preferred_console, console_init, RegisterPort,
     PortsDone, TrySkip, TryEnable, TryEnd, CtorsDone, SetupPort, SetupScreen
<1>3. sent = <<>> /\ sent' = <<>> /\ out = <<>> /\ out' = <<>>
  BY <1>1, <1>2 DEF log, DeviceInv, LogInv, LogPhase
<1>4. pc # "fault" /\ pc' # "fault"
  <2>1. pc' \in Boot \cup {"run", "wild"}
    BY BootPc
  <2> QED BY <1>1, <2>1 DEF Boot
<1>5. CASE UNCHANGED <<active_console, screen>>
  <2>1. UNCHANGED <<active_console, framebuffer, cursor_x, cursor_y>>
    BY <1>5 DEF screen
  <2> QED BY <1>3, <1>4, <2>1, Zenon DEF DeviceInv
<1>6. CASE active_console' = "ttyS"
  BY <1>3, <1>6, <1>4, NothingYet DEF DeviceInv
<1>7. CASE framebuffer' = Cleared /\ cursor_x' = 0 /\ cursor_y' = 0
  BY <1>3, <1>7, <1>4, NothingYet, Zenon DEF DeviceInv
<1>8. \/ UNCHANGED <<active_console, screen>>
      \/ active_console' = "ttyS"
      \/ framebuffer' = Cleared /\ cursor_x' = 0 /\ cursor_y' = 0
  <2>1. CASE TryEnable
    <3>1. CASE con = "ttyS"
      <4>1. SetupPort
        BY <2>1, <3>1, Zenon DEF TryEnable
      <4>2. UNCHANGED screen /\ (active_console' = con \/ active_console' = active_console)
        BY <4>1, Zenon DEF SetupPort, Enable
      <4> QED BY <3>1, <4>2
    <3>2. CASE con # "ttyS"
      <4>1. SetupScreen
        BY <2>1, <3>2, Zenon DEF TryEnable
      <4> QED BY <4>1, Zenon DEF SetupScreen
    <3> QED BY <3>1, <3>2
  <2>2. CASE ~TryEnable
    <3>1. UNCHANGED <<active_console, screen>>
      BY <2>2, Zenon DEF BootStep, console_setup, add_preferred_console, console_init,
         RegisterPort, PortsDone, TrySkip, TryEnd, CtorsDone, choice
    <3> QED BY <3>1
  <2> QED BY <2>1, <2>2
<1> QED BY <1>5, <1>6, <1>7, <1>8

\* The log: only the console's write changes the devices.
LEMMA DeviceLog ==
    ASSUME LogInv, DeviceInv, [Next]_vars, ~BootStep
    PROVE  DeviceInv'
<1>1. LogTypes
  BY DEF LogInv
<1>2. CASE EmitPort \/ EmitScreen
  <2>1. PICK h : h = Head(em)
    OBVIOUS
  <2>2. out \in Seq(Chars) /\ em \in Seq(Chars) /\ em # <<>>
    BY <1>1, <1>2 DEF LogTypes, EmitPort, EmitScreen
  <2>3. h \in Chars
    BY <2>1, <2>2, HeadTailProperties
  <2>4. pc' \notin Boot /\ pc' # "fault" /\ pc # "fault" /\ UNCHANGED active_console /\ out' = Append(out, h)
    BY <1>2, <2>1 DEF EmitPort, EmitScreen, choice, Boot
  <2>5. CASE EmitPort
    <3>1. active_console = "ttyS" /\ sent' = sent \o IF h = NL THEN <<CR, NL>> ELSE <<h>>
      BY <2>1, <2>5, Zenon DEF EmitPort
    <3>2. PortSent(out, sent)
      BY <3>1, Zenon DEF DeviceInv
    <3>3. PortSent(out', sent')
      BY <2>2, <2>3, <2>4, <3>1, <3>2, PortStep
    <3>4. active_console' # "tty"
      BY <2>4, <3>1
    <3> QED BY <2>4, <3>3, <3>4, Zenon DEF DeviceInv
  <2>6. CASE EmitScreen
    <3>1. active_console = "tty"
      BY <2>6, Zenon DEF EmitScreen
    <3>2. IF h = NL THEN NewLine(framebuffer)
          ELSE IF cursor_x + CHAR_WIDTH >= screen_width THEN NewLine(Drawn(h))
          ELSE /\ framebuffer' = Drawn(h)
               /\ cursor_x' = cursor_x + CHAR_WIDTH /\ UNCHANGED cursor_y
      BY <2>1, <2>6, Zenon DEF EmitScreen
    <3>3. ScreenShows(out, framebuffer, cursor_x, cursor_y)
      BY <2>4, <3>1, Zenon DEF DeviceInv
    <3>4. ScreenShows(out', framebuffer', cursor_x', cursor_y')
      BY <2>2, <2>3, <2>4, <3>2, <3>3, ScreenStep
    <3>5. active_console' # "ttyS"
      BY <2>4, <3>1
    <3> QED BY <2>4, <3>4, <3>5, Zenon DEF DeviceInv
  <2> QED BY <1>2, <2>5, <2>6
<1>3. CASE EmitNowhere
  <2>1. active_console' = NOTHING /\ pc' \notin Boot /\ pc' # "fault"
    BY <1>3 DEF EmitNowhere, choice, Boot
  <2> QED BY <2>1 DEF DeviceInv, NOTHING
<1>4. CASE EmitFault
  <2>1. /\ active_console = "tty" /\ pc = "emit" /\ pc' = "fault" /\ UNCHANGED active_console
        /\ At(cursor_x + CHAR_WIDTH - 1, cursor_y + CHAR_HEIGHT - 1) >= framebuffer_size
    BY <1>4, Zenon DEF EmitFault, choice
  <2>2. ScreenShows(out, framebuffer, cursor_x, cursor_y)
    BY <2>1 DEF DeviceInv
  <2>3. out \in Seq(Chars)
    BY <1>1, Zenon DEF LogTypes
  <2>4. At(Cols * CHAR_WIDTH, Rows * CHAR_HEIGHT - 1) > framebuffer_size
    BY <2>1, <2>2, <2>3, StuckOut
  <2>5. pc' \notin Boot /\ active_console' # "ttyS"
    BY <2>1 DEF Boot
  <2> QED BY <2>1, <2>4, <2>5, Zenon DEF DeviceInv
<1>5. CASE ~(EmitPort \/ EmitScreen \/ EmitFault \/ EmitNowhere)
  <2>1. UNCHANGED <<active_console, framebuffer, cursor_x, cursor_y, out, sent>> /\ (pc' = pc \/ (pc' \notin Boot /\ pc' # "fault" /\ pc # "fault"))
    <3>1. CASE UNCHANGED vars
      BY <3>1 DEF vars, choice, screen, log
    <3>2. CASE Next
      BY <1>5, <3>2 DEF Next, BootStep, ulog, Fill, FillDone, Flush, EmitDone, choice, screen, log, Boot
    <3> QED BY <3>1, <3>2
  <2> QED BY <2>1, Zenon DEF DeviceInv
<1> QED BY <1>2, <1>3, <1>5, <1>4

\* The screen shows the last rows of what was written, every pixel of it, as a
\* terminal would break it into lines, however often it scrolled, whatever its
\* width and height are: of a last column or row that is there in part, what
\* efifb_draw_char puts right of a line is on the next one or off the screen,
\* and what was below the screen does not come back (efifb_put_char,
\* efifb_scroll_screen).  Only a character that sticks out of the framebuffer is
\* written behind it.  The serial port has sent every character once, with a CR
\* before each NL (uart_poll_put_char).
THEOREM DevicesShowOutput == Spec => []DeviceShows
<1>1. Init => DeviceInv
  BY Zenon DEF Init, DeviceInv, NOTHING
<1>2. LogInv /\ DeviceInv /\ [Next]_vars => DeviceInv'
  BY DeviceBoot, DeviceLog
<1>3. DeviceInv => DeviceShows
  <2> SUFFICES ASSUME DeviceInv PROVE DeviceShows
    OBVIOUS
  <2>1. ASSUME active_console = "tty", pc # "fault", NEW a \in OnScreen
        PROVE  framebuffer[a] = Shown(a)
    <3>1. framebuffer[a] = ShownIn(out, TopOf(out), a)
      BY <2>1, Zenon DEF DeviceInv, ScreenShows, PixelsShow
    <3>2. \A k : Column(k) = ColumnIn(out, k)
      BY Zenon DEF Column, ColumnIn, Before, LastOf
    <3>3. \A k : Breaks(k) <=> BreaksIn(out, k)
      BY <3>2, Zenon DEF Breaks, BreaksIn
    <3>4. \A k : Row(k) = RowIn(out, k)
      <4> TAKE k
      <4>1. {j \in 1 .. k - 1 : Breaks(j)} = BreaksBefore(out, k)
        BY <3>3, Zenon DEF BreaksBefore
      <4> QED BY <4>1, Zenon DEF Row, RowIn
    <3>5. Top = TopOf(out)
      BY <3>4, Zenon DEF Top, TopOf, NextRow
    <3>6. \A k, r, p : Place(k, r, p[2], p[3]) = PlaceIn(out, k, r, p)
      BY <3>2, Zenon DEF Place, PlaceIn
    <3>7. Shown(a) = ShownIn(out, TopOf(out), a)
      BY <3>4, <3>5, <3>6, Zenon DEF Shown, ShownIn, Draws, Glyphs
    <3> QED BY <3>1, <3>7
  <2>3. pc = "fault" => At(Cols * CHAR_WIDTH, Rows * CHAR_HEIGHT - 1) > framebuffer_size
    BY Zenon DEF DeviceInv
  <2>2. ASSUME active_console = "ttyS"
        PROVE  /\ Len(sent) = Len(out) + NewLines(Len(out))
               /\ \A k \in DOMAIN out :
                     /\ sent[k + NewLines(k)] = out[k]
                     /\ out[k] = NL => sent[(k + NewLines(k)) - 1] = CR
    <3>1. PortSent(out, sent)
      BY <2>2, Zenon DEF DeviceInv
    <3>2. \A k : NewLines(k) = Ends(out, k)
      BY Zenon DEF NewLines, Ends
    <3> QED BY <3>1, <3>2, Zenon DEF PortSent
  <2> QED BY <2>1, <2>2, <2>3, Zenon DEF DeviceShows
<1> QED BY <1>1, <1>2, <1>3, LogAlways, PTL DEF Spec

=============================================================================
