---------------------------- MODULE ServerBoard ----------------------------
(***************************************************************************)
(* What the list panel of a server browser tab promises to the user, who   *)
(* picks a server by its row: a board on which a server has one row and a  *)
(* row one server, where an answer moves only the server that answered,    *)
(* and where a change of the filters takes no server off.                  *)
(***************************************************************************)
CONSTANTS
    Rows,       \* the places on the board
    Addresses   \* the servers, by address and query port

VARIABLE board  \* which server stands in which row

Place == [row : Rows, address : Addresses]

\* A server has one row, and a row one server.
OneToOne(b) ==
    \A p, q \in b : p.row = q.row \/ p.address = q.address => p = q

BoardInit == board = {}

\* A new list is asked for: the board is wiped.
Clear == board' = {}

(***************************************************************************)
(* The server at adr answers, or fails to: it leaves the board, or it      *)
(* stands afterwards in a row that no other server has.  All others stay   *)
(* where they are.                                                         *)
(***************************************************************************)
Answer(adr) ==
    LET others == {p \in board : p.address # adr}
    IN  \/ board' = others
        \/ \E r \in Rows \ {p.row : p \in others} :
             board' = others \cup {[row |-> r, address |-> adr]}

\* The filters change: servers that passed by unseen are added, and those on
\* the board stay where they are.
Post ==
    /\ board \subseteq board'
    /\ board' \subseteq Place
    /\ OneToOne(board')

BoardNext == Clear \/ Post \/ \E adr \in Addresses : Answer(adr)

BoardSpec == BoardInit /\ [][BoardNext]_board

-----------------------------------------------------------------------------
\* No server stands on the board twice, and no row stands for two servers.
BoardInv == board \subseteq Place /\ OneToOne(board)

=============================================================================
