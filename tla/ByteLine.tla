-------------------------------- MODULE ByteLine --------------------------------
(***************************************************************************)
(* What the two command lines promise of their virtual serial port.  What   *)
(* the host types reaches the program byte for byte and in order, whatever  *)
(* the bytes are.  What the program says goes out byte for byte and in      *)
(* order too, each byte once; a byte is given up only while the line is not *)
(* open or the host leaves the packet before it lying, and usb_puts then    *)
(* gives up the rest of its string.  Bytes on their way are dropped only by *)
(* a line that goes off, save the one typed byte the program has in hand.   *)
(***************************************************************************)
EXTENDS Naturals, Sequences

CONSTANT Bytes

VARIABLES
  line,     (* "off", "configured" or "open"                                 *)
  up,       (* typed and not yet heard                                       *)
  heard,    (* the byte the program heard last                               *)
  saying,   (* strings the program has still to say: by which function, the  *)
            (* place of the next byte and that of the last                   *)
  down,     (* said and not yet shown, each byte with its string's function  *)
            (* and its place there                                           *)
  offered,  (* whether the host may take what is said                        *)
  shown     (* the last bytes that the host took, since the line came up     *)

lineVars == <<line, up, heard, saying, down, offered, shown>>

Type ==
  /\ line # "off"
  /\ Len(up') > Len(up) /\ \A i \in DOMAIN up : up'[i] = up[i]
  /\ \A i \in DOMAIN up' : up'[i] \in Bytes
  /\ UNCHANGED <<line, heard, saying, down, offered, shown>>

(* The program says all it has to say to one byte before it hears the next. *)
Hear ==
  /\ up # <<>> /\ saying = <<>>
  /\ heard' = Head(up) /\ up' = Tail(up)
  /\ \A i \in DOMAIN saying' : saying'[i].next = 1
  /\ UNCHANGED <<line, down, offered, shown>>

Unsaid == saying # <<>> /\ saying[1].next <= saying[1].last

Say ==
  /\ Unsaid /\ line # "off" /\ ~offered
  /\ down' = Append(down, <<saying[1].via, saying[1].next>>)
  /\ saying' = [saying EXCEPT ![1].next = @ + 1]
  /\ UNCHANGED <<line, up, heard, offered, shown>>

GiveUp ==
  /\ Unsaid /\ (line # "open" \/ offered)
  /\ saying' = [saying EXCEPT ![1].next =
                  IF saying[1].via = "usb_puts" THEN saying[1].last + 1 ELSE @ + 1]
  /\ UNCHANGED <<line, up, heard, down, offered, shown>>

(* The one byte that was let through just before the line went off. *)
Lose ==
  /\ Unsaid /\ line = "off"
  /\ saying' = [saying EXCEPT ![1].next = @ + 1]
  /\ UNCHANGED <<line, up, heard, down, offered, shown>>

NextString ==
  /\ saying # <<>> /\ ~Unsaid /\ saying' = Tail(saying)
  /\ UNCHANGED <<line, up, heard, down, offered, shown>>

Offer ==
  /\ line # "off" /\ offered'
  /\ UNCHANGED <<line, up, heard, saying, down, shown>>

Show ==
  /\ line # "off" /\ offered /\ ~offered'
  /\ down' = <<>> /\ shown' = IF down = <<>> THEN shown ELSE down
  /\ UNCHANGED <<line, up, heard, saying>>

Connect ==
  /\ line = "off" /\ line' = "configured"
  /\ UNCHANGED <<up, heard, saying, down, offered, shown>>

OpenOrClose ==
  /\ line # "off" /\ line' \in {"configured", "open"}
  /\ UNCHANGED <<up, heard, saying, down, offered, shown>>

Drop ==
  /\ line # "off" /\ line' = "off"
  /\ up' = <<>> \/ (up # <<>> /\ up' = <<Head(up)>>)
  /\ down' = <<>> /\ ~offered' /\ shown' = <<>>
  /\ UNCHANGED <<heard, saying>>

Silent == up = <<>> /\ heard \notin Bytes /\ saying = <<>> /\ down = <<>> /\ shown = <<>>

(* A program that is started again has nothing in hand and nothing to say. *)
Restart == line' = "off" /\ ~offered' /\ Silent'

LineInit == line = "off" /\ ~offered /\ Silent

LineNext ==
  \/ Type \/ Hear \/ Say \/ GiveUp \/ Lose \/ NextString \/ Offer \/ Show
  \/ Connect \/ OpenOrClose \/ Drop \/ Restart

LineSpec == LineInit /\ [][LineNext]_lineVars
=============================================================================
