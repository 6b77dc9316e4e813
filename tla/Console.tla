------------------------------- MODULE Console -------------------------------
(***************************************************************************)
(* From the command line's "console=" to the screen: the preferred         *)
(* consoles and the choice of one (drivers/console.c), the serial ports    *)
(* and their console (drivers/uart_core.c, drivers/uart/8250.c), the       *)
(* framebuffer console (drivers/framebuffer/efifb.c), and the log that     *)
(* writes to whichever is active through a line buffer (ukernel/ulog.c,    *)
(* __iob_write of uklib/io_buffer/io_buffer.c).                            *)
(*                                                                         *)
(* Option strings are parsed already: an entry has a name, an index, and   *)
(* the I/O port of "uart,io,<addr>" or NONE.  A serial port that is used   *)
(* though it does not exist is "wild": the code does not check indices.    *)
(***************************************************************************)
EXTENDS Integers, Sequences, FiniteSets

CONSTANTS
    UART_NR, SerialPorts,       \* CONFIG_NR_UARTS; UART_PORTS
    MAX_CONSOLE,
    CmdLines,                   \* what "console=" may say
    Preferred,                  \* entries of add_preferred_console
    Chars, MaxText,             \* characters logged, bound of their number
    MaxPiece,                   \* bound of what one __iob_write is given
    BUF_SIZE,                   \* size of ulog's buffer
    screen_width, screen_height, pitch, framebuffer_size,   \* boot_params.screen_info,
    CHAR_WIDTH, CHAR_HEIGHT                                 \* all in pixels

NONE == -1
NOTHING == "none"            \* a NULL console, an empty cell
NL == "NL"
CR == "CR"
Slots == 0 .. UART_NR - 1
Consoles == {"ttyS", "tty"}

ASSUME ConsoleAssumption ==
    /\ UART_NR \in Nat \ {0} /\ SerialPorts \in Seq(Nat \ {0})
    /\ MAX_CONSOLE \in Nat \ {0}
    /\ \A e \in CmdLines \cup Preferred : e.index \in Nat /\ e.addr \in Nat \cup {NONE}
    /\ NL \in Chars /\ CR \notin Chars /\ NOTHING \notin Chars
    /\ MaxText \in Nat /\ MaxPiece \in Nat /\ BUF_SIZE \in Nat \ {0}
    /\ CHAR_WIDTH \in Nat \ {0} /\ CHAR_HEIGHT \in Nat \ {0}
    /\ screen_width \in Nat \ {0} /\ pitch \in Nat /\ pitch >= screen_width
    /\ screen_height \in Nat /\ screen_height >= CHAR_HEIGHT
    /\ framebuffer_size \in Nat /\ framebuffer_size >= screen_height * pitch

VARIABLES
    pc,
    pcs,                        \* the preferred consoles
    todo,                       \* consoles whose constructor has not run
    uart_ports,                 \* I/O port of each slot, NONE: PORT_UNKNOWN
    mcr,                        \* slots whose DTR and RTS are on
    index,                      \* con->index of each console
    active_console,
    con, user, i,               \* locals of register_console and init_ports
    framebuffer,                \* the screen's lines, or <<>> before it is mapped
    cursor_x, cursor_y,
    buffer,                     \* the output buffer of the log
    rest, tail, line,           \* __iob_write: what is left of the part in work,
                                \* the part behind it, and whether it is lines
    em,                         \* characters handed to the console's write
    text,                       \* all that was logged
    out,                        \* all that was handed to the console
    sent                        \* all that the serial port transmitted

choice == <<pcs, todo, uart_ports, mcr, index, active_console, con, user, i>>
screen == <<framebuffer, cursor_x, cursor_y>>
log == <<buffer, rest, tail, line, em, text, out, sent>>
vars == <<pc, choice, screen, log>>

Init ==
    /\ pc = "param" /\ pcs = <<>> /\ todo = Consoles
    /\ uart_ports = [s \in Slots |-> NONE] /\ mcr = {}
    /\ index = [c \in Consoles |-> -1]
    /\ active_console = NOTHING /\ con = NOTHING /\ user = FALSE /\ i = 1
    /\ framebuffer = <<>> /\ cursor_x = 0 /\ cursor_y = 0
    /\ buffer = <<>> /\ rest = <<>> /\ tail = <<>> /\ line = FALSE
    /\ em = <<>> /\ text = <<>> /\ out = <<>> /\ sent = <<>>

-----------------------------------------------------------------------------
(* Preferred consoles.                                                     *)

Same(e) == {j \in DOMAIN pcs : pcs[j].name = e.name /\ pcs[j].index = e.index}

__add_preferred_console(e, u) ==
    CASE Same(e) # {} ->
            [j \in DOMAIN pcs |-> IF u /\ j \in Same(e) THEN [pcs[j] EXCEPT !.user = TRUE] ELSE pcs[j]]
      [] Same(e) = {} /\ Len(pcs) = MAX_CONSOLE -> pcs
      [] OTHER -> Append(pcs, [name |-> e.name, index |-> e.index, addr |-> e.addr, user |-> u])

\* The early parameter, if it is there, comes before everything else.
console_setup ==
    /\ pc = "param"
    /\ \/ UNCHANGED pcs
       \/ \E e \in CmdLines : pcs' = __add_preferred_console(e, TRUE)
    /\ pc' = "ctors"
    /\ UNCHANGED <<todo, uart_ports, mcr, index, active_console, con, user, i, screen, log>>

add_preferred_console(e) ==
    /\ pc = "ctors" /\ todo = Consoles
    /\ pcs' = __add_preferred_console(e, FALSE)
    /\ UNCHANGED <<pc, todo, uart_ports, mcr, index, active_console, con, user, i, screen, log>>

-----------------------------------------------------------------------------
(* The constructors, in the order of the link, which may be either.        *)

console_init(c) ==
    /\ pc = "ctors" /\ c \in todo
    /\ con' = c /\ i' = 1 /\ user' = TRUE
    /\ pc' = IF c = "ttyS" THEN "ports" ELSE "try"
    /\ UNCHANGED <<pcs, todo, uart_ports, mcr, index, active_console, screen, log>>

\* __find_match_port; a slot nobody has registered looks like port 0.
Matching(p) == {s \in Slots : uart_ports[s] = p \/ (p = 0 /\ uart_ports[s] = NONE)}
FreeSlots == {s \in Slots : uart_ports[s] = NONE}
First(S) == CHOOSE s \in S : \A t \in S : s <= t

\* init_ports: register_uart_port for the next port, unless it is there or no
\* slot is free.
RegisterPort ==
    /\ pc = "ports" /\ i <= Len(SerialPorts)
    /\ uart_ports' =
          IF Matching(SerialPorts[i]) = {} /\ FreeSlots # {}
          THEN [uart_ports EXCEPT ![First(FreeSlots)] = SerialPorts[i]] ELSE uart_ports
    /\ i' = i + 1
    /\ UNCHANGED <<pc, pcs, todo, mcr, index, active_console, con, user, screen, log>>

PortsDone ==
    /\ pc = "ports" /\ i > Len(SerialPorts)
    /\ pc' = "try" /\ i' = 1
    /\ UNCHANGED <<pcs, todo, uart_ports, mcr, index, active_console, con, user, screen, log>>

-----------------------------------------------------------------------------
(* register_console.                                                       *)

Registered(s) == s \in Slots /\ uart_ports[s] # NONE

\* con_match of 8250.c; the framebuffer console has none.
Matches(e) == con = "ttyS" /\ e.name = "uart" /\ e.addr # NONE

\* The index con_match leaves: that of the port found (0 in a slot that was
\* never registered), or the one before.
MatchIndex(e) ==
    IF Matching(e.addr) = {} THEN index[con]
    ELSE IF Registered(First(Matching(e.addr))) THEN First(Matching(e.addr)) ELSE 0

Named(e) == e.name = con /\ index[con] \in {-1, e.index}

\* (Mutant of ExitActive: the console to come is shut down.)
ExitActiveNew(k) == IF con = "ttyS" THEN {index'[con]} ELSE {}

\* The slots that active_console->exit shuts down.
ExitActive(k) == IF k = "ttyS" THEN {index[k]} ELSE {}

\* The console is set up and becomes the active one.
Enable ==
    /\ active_console' = con
    /\ todo' = todo \ {con}
    /\ pc' = "ctors" /\ con' = NOTHING
    /\ mcr' = (mcr \cup (IF con = "ttyS" THEN {index'[con]} ELSE {})) \ ExitActive(active_console)
    /\ UNCHANGED <<user, i>>

\* Nothing found: the entries that are not the user's, then none.
TryNext ==
    IF user THEN user' = FALSE /\ i' = 1 /\ UNCHANGED <<pc, todo, con>>
    ELSE pc' = "ctors" /\ todo' = todo \ {con} /\ con' = NOTHING /\ UNCHANGED <<user, i>>

\* setup_port; wait_for_lsr gives up after a while, so it never fails.
SetupPort ==
    /\ IF Registered(index'[con])
       THEN Enable
       ELSE pc' = "wild" /\ UNCHANGED <<mcr, active_console, todo, con, user, i>>
    /\ UNCHANGED <<screen, log>>

PixelsOf(n) == 0 .. n - 1
Blank == {}            \* a pixel is what was drawn there
OnScreen == PixelsOf(screen_height * pitch)
Cleared == [a \in OnScreen |-> Blank]

\* con_setup of efifb.c: the mapping may fail.
SetupScreen ==
    /\ \/ /\ framebuffer' = Cleared /\ cursor_x' = 0 /\ cursor_y' = 0
          /\ Enable
       \/ /\ TryNext
          /\ UNCHANGED <<mcr, active_console, screen>>
    /\ UNCHANGED log

TrySkip ==
    /\ pc = "try" /\ i <= Len(pcs)
    /\ LET e == pcs[i] IN e.user # user \/ (~Matches(e) /\ ~Named(e))
    /\ i' = i + 1
    /\ UNCHANGED <<pc, pcs, todo, uart_ports, mcr, index, active_console, con, user, screen, log>>

TryEnable ==
    /\ pc = "try" /\ i <= Len(pcs)
    /\ LET e == pcs[i]
       IN  /\ e.user = user /\ (Matches(e) \/ Named(e))
           /\ index' = [index EXCEPT ![con] = IF Matches(e) THEN MatchIndex(e) ELSE e.index]
    /\ IF con = "ttyS" THEN SetupPort ELSE SetupScreen
    /\ UNCHANGED <<pcs, uart_ports>>

TryEnd ==
    /\ pc = "try" /\ i > Len(pcs)
    /\ TryNext
    /\ UNCHANGED <<pcs, uart_ports, mcr, index, active_console, screen, log>>

CtorsDone ==
    /\ pc = "ctors" /\ todo = {}
    /\ pc' = "run"
    /\ UNCHANGED <<choice, screen, log>>

-----------------------------------------------------------------------------
(* The log: __iob_write in line mode.                                      *)

Lines(s) == {k \in DOMAIN s : s[k] = NL}
LastLine(s) == CHOOSE k \in Lines(s) : \A j \in Lines(s) : j <= k

ulog(s) ==
    /\ pc = "run" /\ Len(text) + Len(s) <= MaxText
    /\ text' = text \o s
    /\ line' = (Lines(s) # {})
    /\ IF Lines(s) = {}
       THEN rest' = s /\ tail' = <<>>
       ELSE /\ rest' = SubSeq(s, 1, LastLine(s))
            /\ tail' = SubSeq(s, LastLine(s) + 1, Len(s))
    /\ pc' = "write"
    /\ UNCHANGED <<choice, screen, buffer, em, out, sent>>

\* iob_flush, and the loop of the console's write.
Flush ==
    /\ em' = buffer /\ buffer' = <<>>
    /\ pc' = "emit"

Min(a, b) == IF a < b THEN a ELSE b

\* (Mutant of Bypass: also when something is waiting in the buffer.)
BypassAlways == BUF_SIZE <= Len(rest)

Bypass == buffer = <<>> /\ BUF_SIZE <= Len(rest)

\* One iteration of wbuffer_no_flush: a full buffer is flushed first.
Fill ==
    /\ pc = "write" /\ rest # <<>>
    /\ IF Len(buffer) = BUF_SIZE
       THEN Flush /\ UNCHANGED rest
       ELSE IF Bypass
       THEN em' = rest /\ rest' = <<>> /\ pc' = "emit" /\ UNCHANGED buffer
       ELSE LET n == Min(Len(rest), BUF_SIZE - Len(buffer))
            IN  /\ buffer' = buffer \o SubSeq(rest, 1, n)
                /\ rest' = SubSeq(rest, n + 1, Len(rest))
                /\ UNCHANGED <<pc, em>>
    /\ UNCHANGED <<choice, screen, tail, line, text, out, sent>>

\* The lines are flushed, if there were any; then the part behind them.
FillDone ==
    /\ pc = "write" /\ rest = <<>>
    /\ IF line
       THEN Flush /\ rest' = tail /\ tail' = <<>> /\ line' = FALSE
       ELSE /\ pc' = "run" /\ UNCHANGED <<rest, tail, line, buffer, em>>
    /\ UNCHANGED <<choice, screen, text, out, sent>>

-----------------------------------------------------------------------------
(* The devices.                                                            *)

\* console_write without a console: -EINVAL, and the text is gone.
EmitNowhere ==
    /\ pc = "emit" /\ em # <<>> /\ active_console = NOTHING
    /\ em' = <<>>
    /\ UNCHANGED <<pc, choice, screen, buffer, rest, tail, line, text, out, sent>>

\* uart_poll_put_char
EmitPort ==
    /\ pc = "emit" /\ em # <<>> /\ active_console = "ttyS"
    /\ sent' = sent \o IF Head(em) = NL THEN <<CR, NL>> ELSE <<Head(em)>>
    /\ out' = Append(out, Head(em)) /\ em' = Tail(em)
    /\ UNCHANGED <<pc, choice, screen, buffer, rest, tail, line, text>>

\* efifb_ppixel: a pixel's place is its address and nothing else, so what is
\* drawn right of the last pixel of a line is on the next.
At(x, y) == y * pitch + x

\* efifb_draw_char at the cursor: it sets pixels and clears none.  What is
\* drawn below the screen nobody looks at again.
Drawn(ch) ==
    [a \in DOMAIN framebuffer |->
        framebuffer[a] \cup {p \in {ch} \X PixelsOf(CHAR_WIDTH) \X PixelsOf(CHAR_HEIGHT) :
                                a = At(cursor_x + p[2], cursor_y + p[3])}]

\* Rows and columns of the screen: the last of either may be there in part.
Cols == ((screen_width + CHAR_WIDTH) - 1) \div CHAR_WIDTH
Rows == ((screen_height + CHAR_HEIGHT) - 1) \div CHAR_HEIGHT

\* (Mutant of Scrolled: only the last row is blank, however little of it there is.)
ScrolledRow(f) ==
    [a \in DOMAIN f |->
        IF a + CHAR_HEIGHT * pitch \in DOMAIN f THEN f[a + CHAR_HEIGHT * pitch]
        ELSE IF a < ((Rows - 1) * CHAR_HEIGHT) * pitch THEN f[a] ELSE Blank]

\* efifb_scroll_screen: everything moves up a row, and the screen's last
\* CHAR_HEIGHT lines are blank.
Scrolled(f) ==
    [a \in DOMAIN f |->
        IF a + CHAR_HEIGHT * pitch \in DOMAIN f THEN f[a + CHAR_HEIGHT * pitch] ELSE Blank]

\* The cursor goes to the next line, with f on the screen.
NewLine(f) ==
    /\ cursor_x' = 0
    /\ IF cursor_y + CHAR_HEIGHT >= screen_height
       THEN framebuffer' = Scrolled(f) /\ UNCHANGED cursor_y
       ELSE framebuffer' = f /\ cursor_y' = cursor_y + CHAR_HEIGHT

\* A character that sticks out of the framebuffer hits what is mapped behind
\* it, or nothing.
EmitFault ==
    /\ pc = "emit" /\ em # <<>> /\ active_console = "tty" /\ Head(em) # NL
    /\ At(cursor_x + CHAR_WIDTH - 1, cursor_y + CHAR_HEIGHT - 1) >= framebuffer_size
    /\ framebuffer' = Drawn(Head(em)) /\ pc' = "fault"
    /\ UNCHANGED <<choice, cursor_x, cursor_y, log>>

\* efifb_put_char
EmitScreen ==
    /\ pc = "emit" /\ em # <<>> /\ active_console = "tty"
    /\ IF Head(em) = NL THEN NewLine(framebuffer)
       ELSE IF cursor_x + CHAR_WIDTH >= screen_width THEN NewLine(Drawn(Head(em)))
       ELSE /\ framebuffer' = Drawn(Head(em))
            /\ cursor_x' = cursor_x + CHAR_WIDTH /\ UNCHANGED cursor_y
    /\ out' = Append(out, Head(em)) /\ em' = Tail(em)
    /\ UNCHANGED <<pc, choice, buffer, rest, tail, line, text, sent>>

EmitDone ==
    /\ pc = "emit" /\ em = <<>>
    /\ pc' = "write"
    /\ UNCHANGED <<choice, screen, log>>

Pieces == UNION {[1 .. n -> Chars] : n \in 1 .. MaxPiece}

Next ==
    \/ console_setup
    \/ \E e \in Preferred : add_preferred_console(e)
    \/ \E c \in Consoles : console_init(c)
    \/ RegisterPort \/ PortsDone \/ TrySkip \/ TryEnable \/ TryEnd \/ CtorsDone
    \/ \E s \in Pieces : ulog(s)
    \/ Fill \/ FillDone \/ EmitNowhere \/ EmitPort \/ EmitScreen \/ EmitFault \/ EmitDone

Spec == Init /\ [][Next]_vars

-----------------------------------------------------------------------------
(* Properties.                                                             *)

Exists(e) == CASE e.name = "uart" -> \E s \in Slots : Registered(s) /\ uart_ports[s] = e.addr
               [] e.name = "ttyS" -> Registered(e.index)
               [] OTHER -> FALSE

\* The console that output goes to is set up and has not been shut down, and
\* a serial port nobody writes to is shut down: registering a console disturbs
\* no other, in whichever order the constructors run.  A console is active at
\* the end if an entry asks for a serial port there is; ports that do not exist
\* are only used if an entry asks for one.
ActiveReady ==
    /\ pc # "wild" =>
          /\ active_console = "ttyS" => mcr = {index["ttyS"]} /\ Registered(index["ttyS"])
          /\ active_console = "tty" => framebuffer # <<>> /\ mcr = {}
          /\ active_console = NOTHING => mcr = {}
    /\ pc = "run" /\ (\E j \in DOMAIN pcs : Exists(pcs[j])) => active_console # NOTHING
    /\ pc = "wild" => \E j \in DOMAIN pcs : pcs[j].name \in {"ttyS", "uart"} /\ ~Exists(pcs[j])

\* Between calls the console has been given everything that was logged, in
\* order and once, but for the beginning of a line that waits in the buffer.
LogFaithful ==
    pc = "run" /\ active_console # NOTHING =>
        /\ out \o buffer = text
        /\ Len(buffer) <= BUF_SIZE /\ Lines(buffer) = {}

\* What the k-th character of the output follows on its line, and the row it
\* is in: one more for every line before it and every row that was filled.
Column(k) ==
    LET before == {j \in 1 .. k - 1 : out[j] = NL}
    IN  k - 1 - (IF before = {} THEN 0 ELSE CHOOSE m \in before : \A j \in before : j <= m)
Breaks(j) == out[j] = NL \/ Column(j) % Cols = Cols - 1
Row(k) == Cardinality({j \in 1 .. k - 1 : Breaks(j)})

Top == IF Row(Len(out) + 1) < Rows THEN 0 ELSE Row(Len(out) + 1) - (Rows - 1)

\* The address of a pixel of the k-th character, if its row is the r-th of the
\* screen; what a screen shows of the output there, whose first row is Top.
\* A row that was the last has lost what stuck out of the screen.
Place(k, r, dx, dy) == At((Column(k) % Cols) * CHAR_WIDTH + dx, r * CHAR_HEIGHT + dy)

Shown(a) ==
    {p \in Chars \X PixelsOf(CHAR_WIDTH) \X PixelsOf(CHAR_HEIGHT) :
        \E k \in DOMAIN out :
            /\ out[k] = p[1] /\ p[1] # NL
            /\ Place(k, Row(k) - Top, p[2], p[3]) = a
            /\ Place(k, Min(Row(k), Rows - 1), p[2], p[3]) \in OnScreen}

\* Ends of line among the first k characters of the output.
NewLines(k) == Cardinality({j \in 1 .. k : out[j] = NL})

\* The screen shows the last rows of the output, broken into lines, and the
\* serial port has sent it with a CR before every NL, and nothing else.  Nothing
\* is written behind a framebuffer that has room for whole cells.
DeviceShows ==
    /\ active_console = "tty" /\ pc # "fault" =>
          \A a \in OnScreen : framebuffer[a] = Shown(a)
    /\ pc = "fault" => At(Cols * CHAR_WIDTH, Rows * CHAR_HEIGHT - 1) > framebuffer_size
    /\ active_console = "ttyS" =>
          /\ Len(sent) = Len(out) + NewLines(Len(out))
          /\ \A k \in DOMAIN out :
                /\ sent[k + NewLines(k)] = out[k]
                /\ out[k] = NL => sent[(k + NewLines(k)) - 1] = CR
=============================================================================
