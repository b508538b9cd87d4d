------------------------------ MODULE SerialProofs ------------------------------
(***************************************************************************)
(* The serial loop implements the byte line, whatever the size of a bank,   *)
(* whatever is typed and however long what is printed is.                   *)
(***************************************************************************)
EXTENDS SerialLoop, SequenceTheorems, TLAPS

SaidBytes   == Printers \X (1 .. MaxText)
TextRecords == [via : Printers, next : 1 .. MaxText + 1, last : 1 .. MaxText]

(* Only a byte that was really read is in the program's hand: the value is  *)
(* that byte, and 65535 when there was none.                                *)
InHand ==
  /\ pc # "edit" => held = <<>>
  /\ pc = "edit" => value = IF held = <<>> THEN NoByte ELSE held[1]

(* What the wait for the bank leaves: an empty bank, with the program.      *)
BankReady ==
  /\ link = "off" => outBank = <<>> /\ inBank = <<>> /\ ~sending /\ shown = <<>>
  /\ pc \in {"wait", "flush"} /\ ~sending => inBank = <<>>
  /\ pc = "put" => ReadWriteAllowed

(* Between two turns of the editor everything has been printed, and a byte  *)
(* is written only of a string that has one.                                *)
Unprinted == texts # <<>> /\ texts[1].next <= texts[1].last
InPrint ==
  /\ pc \notin {"write", "wait", "put"} => texts = <<>>
  /\ pc \in {"wait", "put"} => Unprinted

SerialInv == LineTypeOK /\ InHand /\ BankReady /\ InPrint

LEMMA ByteFacts ==
  /\ NoByte \notin Bytes /\ Stored(-1) = NoByte
  /\ \A b \in Bytes : b \in Int /\ Stored(b) = b /\ b % 256 = b /\ b # NoByte
  /\ CDC_TXRX_EPSIZE \in Nat /\ CDC_TXRX_EPSIZE > 0
<1>1. NoByte \notin Bytes
  BY SerialConstants DEF NoByte
<1>2. Stored(-1) = NoByte
  BY DEF NoByte, Stored
<1>3. \A b \in Bytes : b \in Int /\ b # NoByte
  BY SerialConstants DEF NoByte
<1>4. \A b \in Bytes : Stored(b) = b /\ b % 256 = b
  <2>1. \A b \in 0 .. 255 : (b + 65536) % 65536 = b /\ b % 256 = b
    OBVIOUS
  <2> QED
    BY <2>1, SerialConstants DEF Stored
<1> QED
  BY <1>1, <1>2, <1>3, <1>4, SerialConstants

LEMMA StartedIsFine == Started => SerialInv /\ Line!LineInit
<1> SUFFICES ASSUME Started PROVE SerialInv /\ Line!LineInit
  OBVIOUS
<1> USE DEF Started
<1>1. <<>> \in Seq(Bytes) /\ <<>> \in Seq(SaidBytes) /\ <<>> \in Seq(TextRecords)
      /\ Len(<<>>) = 0 /\ <<>> \o <<>> = <<>>
  OBVIOUS
<1>2. outBank \in Seq(Bytes) /\ Len(outBank) <= CDC_TXRX_EPSIZE
  BY <1>1, ByteFacts
<1>3. inBank \in Seq(SaidBytes) /\ Len(inBank) <= CDC_TXRX_EPSIZE /\ shown \in Seq(SaidBytes)
  BY <1>1, ByteFacts
<1>4. texts \in Seq(TextRecords) /\ held \in {<<>>} \cup {<<b>> : b \in Bytes}
  BY <1>1
<1>5. LineTypeOK
  BY <1>2, <1>3, <1>4 DEF LineTypeOK, SaidBytes, TextRecords
<1>6. InHand /\ BankReady /\ InPrint
  BY DEF InHand, BankReady, InPrint
<1>7. Line!LineInit
  BY <1>1, ByteFacts DEF Line!LineInit, Line!Silent
<1> QED
  BY <1>5, <1>6, <1>7 DEF SerialInv

LEMMA ReadStep ==
  ASSUME SerialInv, usb_read_byte
  PROVE  SerialInv' /\ UNCHANGED Line!lineVars
<1> USE DEF SerialInv, usb_read_byte
<1>1. InPrint' /\ UNCHANGED <<link, inBank, sending, shown, heard, texts>>
  BY DEF InPrint
<1>2. CASE link = "open" /\ outBank # <<>>
  <2>1. /\ Head(outBank) \in Bytes /\ Tail(outBank) \in Seq(Bytes)
        /\ Len(Tail(outBank)) = Len(outBank) - 1
        /\ outBank = <<Head(outBank)>> \o Tail(outBank)
    BY <1>2, HeadTailProperties DEF LineTypeOK
  <2>2. held' \o outBank' = held \o outBank
    <3>1. held = <<>> /\ held' = <<Head(outBank)>> /\ outBank' = Tail(outBank)
      BY <1>2 DEF InHand
    <3>2. <<>> \o outBank = outBank
      BY ConcatEmptySeq DEF LineTypeOK
    <3> QED
      BY <2>1, <3>1, <3>2
  <2>3. LineTypeOK'
    <3>1. outBank' \in Seq(Bytes) /\ Len(outBank') <= CDC_TXRX_EPSIZE
      <4>1. outBank' = Tail(outBank)
        BY <1>2
      <4>2. Len(outBank) \in Nat /\ Len(outBank) <= CDC_TXRX_EPSIZE
        BY LenProperties DEF LineTypeOK
      <4>3. Len(outBank) - 1 <= CDC_TXRX_EPSIZE
        BY <4>2, ByteFacts
      <4> QED
        BY <2>1, <4>1, <4>3
    <3>2. held' = <<Head(outBank)>> /\ value' = Stored(Head(outBank))
      BY <1>2
    <3>3. held' \in {<<c>> : c \in Bytes} /\ value' \in Bytes
      BY <2>1, <3>2, ByteFacts
    <3> QED
      BY <1>1, <3>1, <3>3 DEF LineTypeOK
  <2>4. InHand'
    <3>1. held' = <<Head(outBank)>> /\ value' = Head(outBank) /\ pc' = "edit"
      BY <1>2, <2>1, ByteFacts
    <3>2. held' # <<>> /\ held'[1] = Head(outBank)
      BY <3>1
    <3> QED
      BY <3>1, <3>2 DEF InHand
  <2>5. BankReady'
    BY <1>2 DEF BankReady, ReadWriteAllowed
  <2> QED
    BY <1>1, <2>2, <2>3, <2>4, <2>5 DEF Line!lineVars
<1>3. CASE ~(link = "open" /\ outBank # <<>>)
  <2>1. LineTypeOK' /\ UNCHANGED <<held, outBank>>
    BY <1>1, <1>3, ByteFacts DEF LineTypeOK
  <2>2. InHand'
    BY <1>3, ByteFacts DEF InHand
  <2>3. BankReady'
    BY <1>3 DEF BankReady, ReadWriteAllowed
  <2> QED
    BY <1>1, <2>1, <2>2, <2>3 DEF Line!lineVars
<1> QED
  BY <1>2, <1>3

(* What the editor prints starts with the first byte of each string.        *)
LEMMA PrintsTexts ==
  ASSUME NEW byte, NEW p \in Prints(byte)
  PROVE  p \in Seq(TextRecords) /\ \A i \in DOMAIN p : p[i].next = 1
<1>1. ASSUME NEW via \in Printers, NEW n \in 1 .. MaxText
      PROVE  Text(via, n) \in TextRecords /\ Text(via, n).next = 1
  <2>1. 1 \in 1 .. MaxText + 1
    BY SerialConstants
  <2> QED
    BY <1>1, <2>1 DEF Text, TextRecords
<1>2. CASE p = <<>>
  BY <1>2
<1>3. CASE \E n \in 1 .. MaxText : p = <<Text("usb_puts", n)>>
  <2>1. PICK n \in 1 .. MaxText : p = <<Text("usb_puts", n)>>
    BY <1>3
  <2>2. Text("usb_puts", n) \in TextRecords /\ Text("usb_puts", n).next = 1
    BY <1>1 DEF Printers
  <2> HIDE DEF Prints
  <2> QED
    BY <2>1, <2>2
<1>4. CASE \E n \in 1 .. MaxText : p = <<Text("printf", n), Text("usb_puts", 1)>>
  <2>1. PICK n \in 1 .. MaxText : p = <<Text("printf", n), Text("usb_puts", 1)>>
    BY <1>4
  <2>2. 1 \in 1 .. MaxText
    BY <2>1, SerialConstants
  <2>3. /\ Text("printf", n) \in TextRecords /\ Text("printf", n).next = 1
        /\ Text("usb_puts", 1) \in TextRecords /\ Text("usb_puts", 1).next = 1
    BY <1>1, <2>2 DEF Printers
  <2> QED
    BY <2>1, <2>3
<1> QED
  BY <1>2, <1>3, <1>4 DEF Prints

LEMMA EditStep ==
  ASSUME SerialInv, mcucli_putc
  PROVE  SerialInv' /\ Line!Hear
<1> USE DEF SerialInv, mcucli_putc
<1>1. PICK b \in Bytes : held = <<b>> /\ value = b
  BY ByteFacts DEF InHand, LineTypeOK
<1>2. /\ heard' = b /\ held' = <<>>
      /\ UNCHANGED <<link, outBank, inBank, sending, shown, value>>
  BY <1>1, ByteFacts DEF bankVars
<1>3. texts = <<>>
  BY DEF InPrint
<1>4. pc' \in {"write", "spin", "disable"} /\ (pc' # "write" => texts' = <<>>)
  BY <1>3
<1>5. texts' \in Seq(TextRecords) /\ \A i \in DOMAIN texts' : texts'[i].next = 1
  <2>1. CASE texts' \in Prints(value % 256)
    BY <2>1, PrintsTexts
  <2>2. CASE texts' = <<>>
    BY <2>2
  <2> QED
    BY <1>3, <2>1, <2>2
<1>6. /\ <<b>> \o outBank # <<>> /\ Head(<<b>> \o outBank) = b
      /\ Tail(<<b>> \o outBank) = outBank /\ <<>> \o outBank = outBank
  BY <1>1 DEF LineTypeOK
<1>7. LineTypeOK'
  BY <1>1, <1>2, <1>4, <1>5 DEF LineTypeOK, TextRecords
<1>8. InHand' /\ BankReady' /\ InPrint'
  BY <1>2, <1>4 DEF InHand, BankReady, InPrint
<1>9. Line!Hear
  BY <1>1, <1>2, <1>3, <1>5, <1>6 DEF Line!Hear
<1> QED
  BY <1>7, <1>8, <1>9

(* A step that advances the string in print keeps its type.                 *)
LEMMA FirstText ==
  ASSUME LineTypeOK, Unprinted
  PROVE  /\ texts[1] \in TextRecords /\ texts[1].next <= texts[1].last
         /\ \A t \in TextRecords : [texts EXCEPT ![1] = t] \in Seq(TextRecords)
<1>1. texts \in Seq(TextRecords) /\ texts # <<>>
  BY DEF LineTypeOK, Unprinted, TextRecords
<1>2. Len(texts) \in Nat \ {0}
  BY <1>1, EmptySeq
<1>3. 1 \in 1 .. Len(texts)
  BY <1>2
<1>4. texts[1] \in TextRecords
  BY <1>1, <1>3, ElementOfSeq
<1>5. \A t \in TextRecords : [texts EXCEPT ![1] = t] \in Seq(TextRecords)
  BY <1>1, <1>3, ExceptSeq
<1> QED
  BY <1>4, <1>5 DEF Unprinted

LEMMA Advance ==
  ASSUME NEW t \in TextRecords, t.next <= t.last
  PROVE  /\ Advanced(t) \in TextRecords /\ AfterRefusal(t) \in TextRecords
         /\ NextByte(t) \in SaidBytes
         /\ Advanced(t) = [t EXCEPT !.next = t.next + 1]
         /\ AfterRefusal(t) = [t EXCEPT !.next = IF t.via = "usb_puts" THEN t.last + 1
                                                 ELSE t.next + 1]
<1>1. /\ t.next + 1 \in 1 .. MaxText + 1 /\ t.last + 1 \in 1 .. MaxText + 1
      /\ t.next \in 1 .. MaxText /\ t.via \in Printers
  BY SerialConstants DEF TextRecords
<1>2. ASSUME NEW n \in 1 .. MaxText + 1
      PROVE  [t EXCEPT !.next = n] \in TextRecords
  BY <1>2 DEF TextRecords
<1> QED
  BY <1>1, <1>2 DEF Advanced, AfterRefusal, NextByte, SaidBytes

LEMMA RefuseStep ==
  ASSUME SerialInv, Refuse, Unprinted, pc \in {"write", "wait"}, link # "open" \/ sending
  PROVE  SerialInv' /\ Line!GiveUp
<1> DEFINE t == texts[1]
<1>1. t \in TextRecords /\ t.next <= t.last
  BY FirstText DEF SerialInv
<1>2. /\ texts' = [texts EXCEPT ![1] = AfterRefusal(t)] /\ pc' = "write"
      /\ UNCHANGED <<link, outBank, inBank, sending, shown, value, held, heard>>
  BY DEF Refuse, bankVars
<1>3. AfterRefusal(t) \in TextRecords
      /\ AfterRefusal(t) = [t EXCEPT !.next = IF t.via = "usb_puts" THEN t.last + 1
                                               ELSE t.next + 1]
  BY <1>1, Advance
<1>4. texts' \in Seq(TextRecords)
  BY <1>2, <1>3, FirstText DEF SerialInv
<1>5. LineTypeOK'
  BY <1>2, <1>4 DEF SerialInv, LineTypeOK, TextRecords
<1>6. InHand' /\ BankReady' /\ InPrint'
  BY <1>2 DEF SerialInv, InHand, BankReady, InPrint
<1>7. texts' = [texts EXCEPT ![1].next = IF t.via = "usb_puts" THEN t.last + 1
                                         ELSE @ + 1]
  BY <1>2, <1>3
<1>8. Line!GiveUp
  BY <1>2, <1>7 DEF Line!GiveUp, Line!Unsaid, Unprinted
<1> QED
  BY <1>5, <1>6, <1>8 DEF SerialInv

LEMMA CheckStep ==
  ASSUME SerialInv, CheckLine
  PROVE  SerialInv' /\ [Line!LineNext]_Line!lineVars
<1>1. Unprinted /\ pc = "write"
  BY DEF CheckLine, Printing, Unprinted
<1>2. CASE link # "open" /\ Refuse
  BY <1>1, <1>2, RefuseStep DEF Line!LineNext
<1>3. CASE ~(link # "open" /\ Refuse)
  <2>1. /\ link = "open" /\ pc' \in {"put", "wait"}
        /\ UNCHANGED <<link, outBank, inBank, shown, value, held, heard, texts>>
        /\ pc' = "put" => ReadWriteAllowed /\ UNCHANGED sending
        /\ pc' = "wait" => sending' = TRUE
    BY <1>3 DEF CheckLine, bankVars
  <2>2. LineTypeOK'
    BY <2>1 DEF SerialInv, LineTypeOK
  <2>3. InHand' /\ InPrint'
    BY <1>1, <2>1 DEF SerialInv, InHand, InPrint, Unprinted
  <2>4. BankReady'
    BY <2>1 DEF BankReady, ReadWriteAllowed
  <2>5. CASE UNCHANGED sending
    BY <2>1, <2>2, <2>3, <2>4, <2>5 DEF SerialInv, Line!lineVars
  <2>6. CASE sending' = TRUE
    BY <2>1, <2>2, <2>3, <2>4, <2>6 DEF SerialInv, Line!Offer, Line!LineNext
  <2> QED
    BY <2>1, <2>5, <2>6
<1> QED
  BY <1>2, <1>3

LEMMA WaitStep ==
  ASSUME SerialInv, WaitUntilReady
  PROVE  SerialInv' /\ [Line!LineNext]_Line!lineVars
<1>1. Unprinted /\ pc = "wait"
  BY DEF WaitUntilReady, SerialInv, InPrint
<1>2. CASE Refuse /\ (sending \/ link = "off")
  BY <1>1, <1>2, RefuseStep DEF Line!LineNext
<1>3. CASE ~(Refuse /\ (sending \/ link = "off"))
  <2>1. /\ ~sending /\ pc' = "put"
        /\ UNCHANGED <<link, outBank, inBank, sending, shown, value, held, heard, texts>>
    BY <1>3 DEF WaitUntilReady, bankVars
  <2>2. inBank = <<>> /\ Len(<<>>) = 0
    BY <1>1, <2>1 DEF SerialInv, BankReady
  <2>3. LineTypeOK'
    BY <2>1 DEF SerialInv, LineTypeOK
  <2>4. InHand' /\ InPrint'
    BY <1>1, <2>1 DEF SerialInv, InHand, InPrint, Unprinted
  <2>5. ReadWriteAllowed'
    BY <2>1, <2>2, ByteFacts DEF ReadWriteAllowed, BankSize
  <2>6. BankReady'
    BY <2>1, <2>5 DEF SerialInv, BankReady
  <2> QED
    BY <2>1, <2>3, <2>4, <2>6 DEF SerialInv, Line!lineVars
<1> QED
  BY <1>2, <1>3

LEMMA PutStep ==
  ASSUME SerialInv, PutByte
  PROVE  SerialInv' /\ Line!LineNext
<1> DEFINE t == texts[1]
           b == NextByte(t)
<1>1. pc = "put" /\ pc' = "write" /\ Unprinted /\ ReadWriteAllowed
  BY DEF PutByte, SerialInv, InPrint, BankReady
<1>2. t \in TextRecords /\ t.next <= t.last
  BY <1>1, FirstText DEF SerialInv
<1>3. /\ inBank' = IF link = "off" THEN inBank ELSE Append(inBank, b)
      /\ texts' = [texts EXCEPT ![1] = Advanced(t)]
      /\ UNCHANGED <<link, outBank, sending, shown, value, held, heard>>
  BY DEF PutByte
<1>4. /\ Advanced(t) \in TextRecords /\ b \in SaidBytes
      /\ Advanced(t) = [t EXCEPT !.next = t.next + 1] /\ b = <<t.via, t.next>>
  BY <1>2, Advance DEF NextByte
<1>5. texts' \in Seq(TextRecords)
  BY <1>1, <1>3, <1>4, FirstText DEF SerialInv
<1>6. inBank' \in Seq(SaidBytes) /\ Len(inBank') <= CDC_TXRX_EPSIZE
  <2>1. inBank \in Seq(SaidBytes) /\ Len(inBank) \in Nat
    BY LenProperties DEF SerialInv, LineTypeOK, SaidBytes
  <2>2. Len(inBank) + 1 <= CDC_TXRX_EPSIZE /\ Len(inBank) <= CDC_TXRX_EPSIZE
    BY <1>1, <2>1, ByteFacts DEF ReadWriteAllowed, BankSize
  <2>3. Append(inBank, b) \in Seq(SaidBytes) /\ Len(Append(inBank, b)) = Len(inBank) + 1
    BY <1>4, <2>1, AppendProperties
  <2> QED
    BY <1>3, <2>1, <2>2, <2>3
<1>7. LineTypeOK'
  BY <1>1, <1>3, <1>5, <1>6 DEF SerialInv, LineTypeOK, SaidBytes, TextRecords
<1>8. InHand' /\ InPrint'
  BY <1>1, <1>3 DEF SerialInv, InHand, InPrint
<1>9. BankReady'
  BY <1>1, <1>3 DEF SerialInv, BankReady
<1>10. texts' = [texts EXCEPT ![1].next = @ + 1]
  BY <1>3, <1>4
<1>11. CASE link = "off"
  <2>1. UNCHANGED <<link, outBank, inBank, sending, shown, held, heard>>
    BY <1>3, <1>11
  <2>2. Line!Lose
    BY <1>1, <1>10, <1>11, <2>1 DEF Line!Lose, Line!Unsaid, Unprinted
  <2> QED
    BY <1>7, <1>8, <1>9, <2>2 DEF SerialInv, Line!LineNext
<1>12. CASE link # "off"
  <2>1. inBank' = Append(inBank, <<texts[1].via, texts[1].next>>) /\ ~sending
    BY <1>1, <1>3, <1>4, <1>12 DEF ReadWriteAllowed
  <2>2. Line!Say
    BY <1>1, <1>3, <1>10, <1>12, <2>1 DEF Line!Say, Line!Unsaid, Unprinted
  <2> QED
    BY <1>7, <1>8, <1>9, <2>2 DEF SerialInv, Line!LineNext
<1> QED
  BY <1>11, <1>12

LEMMA DoneStep ==
  ASSUME SerialInv, TextDone
  PROVE  SerialInv' /\ [Line!LineNext]_Line!lineVars
<1>1. /\ pc = "write" /\ pc' \in {"write", "task"}
      /\ UNCHANGED <<link, outBank, inBank, sending, shown, value, held, heard>>
  BY DEF TextDone, bankVars
<1>2. /\ texts' \in Seq(TextRecords)
      /\ pc' # "write" => texts' = <<>>
      /\ texts' = texts \/ (texts # <<>> /\ texts[1].next > texts[1].last /\ texts' = Tail(texts))
  <2>1. texts \in Seq(TextRecords)
    BY DEF SerialInv, LineTypeOK, TextRecords
  <2>2. CASE texts = <<>>
    BY <2>1, <2>2 DEF TextDone
  <2>3. CASE texts # <<>>
    <3>1. texts' = Tail(texts) /\ pc' = "write" /\ ~(texts[1].next <= texts[1].last)
      BY <1>1, <2>3 DEF TextDone, Printing
    <3>2. texts[1] \in TextRecords
      <4>1. 1 \in 1 .. Len(texts)
        BY <2>1, <2>3
      <4> QED
        BY <2>1, <4>1, ElementOfSeq
    <3>3. texts[1].next \in Nat /\ texts[1].last \in Nat
      BY <3>2, SerialConstants DEF TextRecords
    <3> QED
      BY <2>1, <2>3, <3>1, <3>3, HeadTailProperties
  <2> QED
    BY <2>2, <2>3
<1>3. LineTypeOK'
  BY <1>1, <1>2 DEF SerialInv, LineTypeOK, TextRecords
<1>4. InHand' /\ BankReady' /\ InPrint'
  BY <1>1, <1>2 DEF SerialInv, InHand, BankReady, InPrint
<1>5. [Line!LineNext]_Line!lineVars
  <2>1. CASE texts' = texts
    BY <1>1, <2>1 DEF Line!lineVars
  <2>2. CASE texts' # texts
    <3>1. texts # <<>> /\ ~Line!Unsaid /\ texts' = Tail(texts)
      BY <2>2 DEF TextDone, Printing, Line!Unsaid
    <3> QED
      BY <1>1, <3>1 DEF Line!NextString, Line!LineNext
  <2> QED
    BY <2>1, <2>2
<1> QED
  BY <1>3, <1>4, <1>5 DEF SerialInv

LEMMA TaskStep ==
  ASSUME SerialInv, NothingRead \/ usb_task \/ FinishFlush
  PROVE  SerialInv' /\ [Line!LineNext]_Line!lineVars
<1>1. /\ UNCHANGED <<link, outBank, inBank, shown, value, held, heard, texts>>
      /\ pc \in {"edit", "task", "flush"} /\ pc' \in {"task", "read", "flush"}
  BY DEF NothingRead, usb_task, FinishFlush, bankVars
<1>2. /\ sending' \in BOOLEAN /\ (link = "off" => ~sending')
      /\ (pc' = "flush" => sending')
      /\ sending' = sending \/ (sending' = TRUE /\ link # "off")
  BY DEF NothingRead, usb_task, FinishFlush, FlushDue, bankVars, SerialInv, BankReady, LineTypeOK
<1>3. LineTypeOK'
  BY <1>1, <1>2 DEF SerialInv, LineTypeOK
<1>4. held = <<>>
  BY ByteFacts DEF NothingRead, usb_task, FinishFlush, SerialInv, InHand, LineTypeOK
<1>5. InHand' /\ InPrint' /\ BankReady'
  BY <1>1, <1>2, <1>4 DEF SerialInv, InHand, InPrint, BankReady
<1>6. CASE sending' = sending
  BY <1>1, <1>3, <1>5, <1>6 DEF SerialInv, Line!lineVars
<1>7. CASE sending' = TRUE /\ link # "off"
  BY <1>1, <1>3, <1>5, <1>7 DEF SerialInv, Line!Offer, Line!LineNext
<1> QED
  BY <1>2, <1>6, <1>7

LEMMA HeldIsSeq ==
  ASSUME SerialInv
  PROVE  held \in Seq(Bytes) /\ <<>> \in Seq(Bytes) /\ Len(<<>>) <= CDC_TXRX_EPSIZE
<1>1. <<>> \in Seq(Bytes) /\ Len(<<>>) = 0 /\ \A b \in Bytes : <<b>> \in Seq(Bytes)
  OBVIOUS
<1>2. held = <<>> \/ \E b \in Bytes : held = <<b>>
  BY DEF SerialInv, LineTypeOK
<1>3. Len(<<>>) <= CDC_TXRX_EPSIZE
  BY <1>1, ByteFacts
<1> QED
  BY <1>1, <1>2, <1>3

LEMMA TypeStep ==
  ASSUME SerialInv, HostTypes
  PROVE  SerialInv' /\ Line!Type
<1> DEFINE up == held \o outBank
<1>1. PICK n \in 1 .. CDC_TXRX_EPSIZE : outBank' \in [1 .. n -> Bytes]
  BY DEF HostTypes
<1>2. /\ UNCHANGED <<link, inBank, sending, shown, pc, value, held, heard, texts>>
      /\ link # "off" /\ outBank = <<>>
  BY DEF HostTypes
<1>3. n \in Nat /\ n > 0 /\ n <= CDC_TXRX_EPSIZE
  BY <1>1, ByteFacts
<1>4. outBank' \in Seq(Bytes) /\ Len(outBank') = n
  BY <1>1, <1>3
<1>5. LineTypeOK'
  BY <1>2, <1>3, <1>4 DEF SerialInv, LineTypeOK
<1>6. InHand' /\ BankReady' /\ InPrint'
  BY <1>2 DEF SerialInv, InHand, BankReady, InPrint, Unprinted, ReadWriteAllowed
<1>7. up = held /\ up' = held \o outBank'
  BY <1>2, HeldIsSeq, ConcatEmptySeq
<1>8. /\ up' \in Seq(Bytes) /\ Len(up') = Len(held) + n
      /\ \A i \in 1 .. Len(held) : up'[i] = held[i]
  <2>1. /\ held \o outBank' \in Seq(Bytes)
        /\ Len(held \o outBank') = Len(held) + Len(outBank')
        /\ \A i \in 1 .. Len(held) + Len(outBank') :
             (held \o outBank')[i] = IF i <= Len(held) THEN held[i]
                                     ELSE outBank'[i - Len(held)]
    BY <1>4, HeldIsSeq, ConcatProperties
  <2>2. Len(held) \in Nat /\ n \in Nat
    BY <1>3, HeldIsSeq, LenProperties
  <2>3. \A i \in 1 .. Len(held) : i \in 1 .. Len(held) + n /\ i <= Len(held)
    BY <2>2
  <2> QED
    BY <1>4, <1>7, <2>1, <2>3
<1>9. DOMAIN up = 1 .. Len(held) /\ Len(held) \in Nat
  BY <1>7, HeldIsSeq, LenProperties
<1>10. Len(up') > Len(up)
  BY <1>3, <1>7, <1>8, <1>9
<1>11. \A i \in DOMAIN up : up'[i] = up[i]
  BY <1>7, <1>8, <1>9
<1>12. \A i \in DOMAIN up' : up'[i] \in Bytes
  BY <1>8, ElementOfSeq, LenProperties
<1>13. Line!Type
  BY <1>2, <1>10, <1>11, <1>12 DEF Line!Type
<1> QED
  BY <1>5, <1>6, <1>13 DEF SerialInv

LEMMA TakeStep ==
  ASSUME SerialInv, HostTakes
  PROVE  SerialInv' /\ Line!Show
<1>1. /\ UNCHANGED <<link, outBank, pc, value, held, heard, texts>> /\ link # "off"
      /\ sending /\ sending' = FALSE /\ inBank' = <<>>
      /\ shown' = IF inBank = <<>> THEN shown ELSE inBank
  BY DEF HostTakes
<1>2. inBank' \in Seq(SaidBytes) /\ shown' \in Seq(SaidBytes)
  BY <1>1 DEF SerialInv, LineTypeOK, SaidBytes
<1>3. LineTypeOK'
  BY <1>1, <1>2, HeldIsSeq DEF SerialInv, LineTypeOK, SaidBytes
<1>4. InHand' /\ BankReady' /\ InPrint'
  BY <1>1 DEF SerialInv, InHand, BankReady, InPrint, Unprinted, ReadWriteAllowed
<1>5. Line!Show
  BY <1>1 DEF Line!Show
<1> QED
  BY <1>3, <1>4, <1>5 DEF SerialInv

LEMMA EventStep ==
  ASSUME SerialInv, ConfigurationChanged \/ ControlRequest
  PROVE  SerialInv' /\ Line!LineNext
<1>1. /\ UNCHANGED <<outBank, inBank, sending, shown, pc, value, held, heard, texts>>
      /\ link' \in {"configured", "open"}
  BY DEF ConfigurationChanged, ControlRequest, bankVars
<1>2. LineTypeOK' /\ InHand' /\ BankReady' /\ InPrint'
  BY <1>1
  DEF SerialInv, LineTypeOK, InHand, BankReady, InPrint, Unprinted, ReadWriteAllowed
<1>3. Line!Connect \/ Line!OpenOrClose
  BY <1>1 DEF ConfigurationChanged, ControlRequest, Line!Connect, Line!OpenOrClose
<1> QED
  BY <1>2, <1>3 DEF SerialInv, Line!LineNext

(* A line that goes off, by the cable or by usb_disable. *)
LEMMA OffStep ==
  ASSUME SerialInv, LineOff, UNCHANGED <<value, held, heard, texts>>,
         pc' = pc \/ (pc = "disable" /\ pc' = "gone")
  PROVE  SerialInv' /\ (link # "off" => Line!Drop)
<1>1. /\ link' = "off" /\ outBank' = <<>> /\ inBank' = <<>>
      /\ sending' = FALSE /\ shown' = <<>>
  BY DEF LineOff
<1>2. inBank' \in Seq(SaidBytes) /\ shown' \in Seq(SaidBytes) /\ Len(<<>>) = 0
  BY <1>1
<1>3. LineTypeOK'
  BY <1>1, <1>2, HeldIsSeq DEF SerialInv, LineTypeOK, SaidBytes
<1>4. ReadWriteAllowed'
  BY <1>1, <1>2, ByteFacts DEF ReadWriteAllowed, BankSize
<1>5. InHand' /\ BankReady' /\ InPrint'
  BY <1>1, <1>4 DEF SerialInv, InHand, BankReady, InPrint, Unprinted
<1>6. held' \o outBank' = held
  BY <1>1, HeldIsSeq, ConcatEmptySeq
<1>7. ASSUME link # "off" PROVE Line!Drop
  <2>1. CASE held = <<>>
    BY <1>1, <1>6, <1>7, <2>1 DEF Line!Drop
  <2>2. CASE held # <<>>
    <3>1. PICK b \in Bytes : held = <<b>>
      BY <2>2 DEF SerialInv, LineTypeOK
    <3>2. held \o outBank # <<>> /\ Head(held \o outBank) = b
      BY <3>1 DEF SerialInv, LineTypeOK
    <3> QED
      BY <1>1, <1>6, <1>7, <3>1, <3>2 DEF Line!Drop
  <2> QED
    BY <2>1, <2>2
<1> QED
  BY <1>3, <1>5, <1>7 DEF SerialInv

LEMMA DisableStep ==
  ASSUME SerialInv, usb_disable
  PROVE  SerialInv' /\ [Line!LineNext]_Line!lineVars
<1>1. SerialInv' /\ (link # "off" => Line!Drop)
  BY OffStep DEF usb_disable
<1>2. CASE link = "off"
  <2>1. UNCHANGED <<link, outBank, inBank, sending, shown, held, heard, texts>>
    BY <1>2 DEF usb_disable, LineOff, SerialInv, BankReady, LineTypeOK
  <2> QED
    BY <1>1, <2>1 DEF Line!lineVars
<1> QED
  BY <1>1, <1>2 DEF Line!LineNext

LEMMA StartsOverStep ==
  ASSUME StartsOver
  PROVE  SerialInv' /\ Line!Restart
<1>1. Started'
  BY DEF StartsOver, LineOff, Started
<1>2. SerialInv' /\ Line!LineInit'
  BY <1>1, StartedIsFine, PTL
<1> QED
  BY <1>2 DEF Line!LineInit, Line!Restart, Line!Silent

LEMMA SerialStep ==
  SerialInv /\ [SerialNext]_serialVars => SerialInv' /\ [Line!LineNext]_Line!lineVars
<1> SUFFICES ASSUME SerialInv, [SerialNext]_serialVars
             PROVE  SerialInv' /\ [Line!LineNext]_Line!lineVars
  OBVIOUS
<1>1. CASE usb_read_byte
  BY <1>1, ReadStep
<1>2. CASE mcucli_putc
  BY <1>2, EditStep DEF Line!LineNext
<1>3. CASE usb_disable
  BY <1>3, DisableStep
<1>4. CASE CheckLine \/ WaitUntilReady
  BY <1>4, CheckStep, WaitStep
<1>5. CASE PutByte
  BY <1>5, PutStep
<1>6. CASE TextDone
  BY <1>6, DoneStep
<1>7. CASE NothingRead \/ usb_task \/ FinishFlush
  BY <1>7, TaskStep
<1>8. CASE HostTypes \/ HostTakes
  BY <1>8, TypeStep, TakeStep DEF Line!LineNext
<1>9. CASE ConfigurationChanged \/ ControlRequest
  BY <1>9, EventStep
<1>10. CASE LinkLost
  <2>1. link # "off" /\ LineOff /\ UNCHANGED <<pc, value, held, heard, texts>>
    BY <1>10 DEF LinkLost
  <2> QED
    BY <2>1, OffStep DEF Line!LineNext
<1>11. CASE WatchdogFires \/ ComesBack
  BY <1>11, StartsOverStep DEF WatchdogFires, ComesBack, Line!LineNext
<1>12. CASE UNCHANGED serialVars
  BY <1>12 DEF serialVars, bankVars, SerialInv, LineTypeOK, InHand, BankReady, InPrint,
               Unprinted, ReadWriteAllowed, Line!lineVars
<1> QED
  BY <1>1, <1>2, <1>3, <1>4, <1>5, <1>6, <1>7, <1>8, <1>9, <1>10, <1>11, <1>12
  DEF SerialNext, Loop, Edit, Host

(* Every variable of the loop keeps its type, and no packet outgrows its    *)
(* bank (usb.c:153-166, 232-236).                                           *)
THEOREM SerialTypes == SerialSpec => []LineTypeOK
<1>1. SerialInit => SerialInv
  BY StartedIsFine DEF SerialInit
<1>2. SerialSpec => []SerialInv
  BY <1>1, SerialStep, PTL DEF SerialSpec
<1> QED
  BY <1>2, PTL DEF SerialInv

(* The loop and its glue keep the promise of a serial line, for every bank  *)
(* size and every text: each byte goes its way once and in order, and what  *)
(* is printed is left out only when the line is not open or the host lets a *)
(* packet lie (main.c:11-18 and 41-46).                                     *)
THEOREM SerialKeepsLine == SerialSpec => LineKept
<1>1. SerialInit => SerialInv /\ Line!LineInit
  BY StartedIsFine DEF SerialInit
<1> QED
  BY <1>1, SerialStep, PTL DEF SerialSpec, LineKept, Line!LineSpec
-----------------------------------------------------------------------------
(* What the host has and is about to get, since the line came up.           *)
Out == shown \o inBank

(* A string of usb_puts in the midst of print goes on where it was, or the  *)
(* line has been off since; the strings after it are still whole.           *)
GoesOnWhereItWas ==
  Unprinted /\ texts[1].via = "usb_puts" /\ texts[1].next > 1
    => Out = <<>> \/ Out[Len(Out)] = <<"usb_puts", texts[1].next - 1>>
RestIsWhole == \A i \in DOMAIN texts : i > 1 => texts[i].next = 1

GapInv == NoGaps /\ GoesOnWhereItWas /\ RestIsWhole

LEMMA GaplessAppend ==
  ASSUME NEW s \in Seq(SaidBytes), NEW b \in SaidBytes, Gapless(s),
         b[1] = "usb_puts" /\ b[2] > 1 => s = <<>> \/ s[Len(s)] = <<"usb_puts", b[2] - 1>>
  PROVE  Gapless(Append(s, b))
<1> DEFINE r == Append(s, b)
<1>1. /\ Len(s) \in Nat /\ Len(r) = Len(s) + 1
      /\ \A i \in 1 .. Len(s) : r[i] = s[i]
      /\ r[Len(s) + 1] = b
  BY AppendProperties, LenProperties
<1>2. ASSUME NEW i \in 2 .. Len(r), r[i][1] = "usb_puts", r[i][2] > 1
      PROVE  r[i - 1] = <<"usb_puts", r[i][2] - 1>>
  <2>1. CASE i \in 2 .. Len(s)
    <3>1. r[i] = s[i] /\ r[i - 1] = s[i - 1]
      BY <1>1, <2>1
    <3> QED
      BY <1>2, <2>1, <3>1 DEF Gapless
  <2>2. CASE i = Len(s) + 1
    <3>1. r[i] = b /\ Len(s) >= 1 /\ r[i - 1] = s[Len(s)]
      BY <1>1, <1>2, <2>2
    <3>2. s # <<>>
      BY <3>1
    <3> QED
      BY <1>2, <3>1, <3>2
  <2> QED
    BY <1>1, <2>1, <2>2
<1> HIDE DEF r
<1>3. Gapless(r)
  BY <1>2 DEF Gapless
<1> QED
  BY <1>3 DEF r

LEMMA GaplessSuffix ==
  ASSUME NEW s \in Seq(SaidBytes), NEW t \in Seq(SaidBytes), Gapless(s \o t)
  PROVE  Gapless(t) /\ (t # <<>> => (s \o t)[Len(s \o t)] = t[Len(t)])
<1> DEFINE r == s \o t
<1>1. /\ Len(s) \in Nat /\ Len(t) \in Nat /\ Len(r) = Len(s) + Len(t)
      /\ \A i \in 1 .. Len(t) : r[Len(s) + i] = t[i]
  <2>1. /\ Len(r) = Len(s) + Len(t)
        /\ \A j \in 1 .. Len(s) + Len(t) :
             r[j] = IF j <= Len(s) THEN s[j] ELSE t[j - Len(s)]
    BY ConcatProperties
  <2>2. Len(s) \in Nat /\ Len(t) \in Nat
    BY LenProperties
  <2>3. ASSUME NEW i \in 1 .. Len(t)
        PROVE  r[Len(s) + i] = t[i]
    <3>1. Len(s) + i \in 1 .. Len(s) + Len(t) /\ ~(Len(s) + i <= Len(s)) /\ Len(s) + i - Len(s) = i
      BY <2>2
    <3> HIDE DEF r
    <3> QED
      BY <2>1, <3>1
  <2> QED
    BY <2>1, <2>2, <2>3
<1> HIDE DEF r
<1>2. Gapless(t)
  <2> SUFFICES ASSUME NEW i \in 2 .. Len(t), t[i][1] = "usb_puts", t[i][2] > 1
               PROVE  t[i - 1] = <<"usb_puts", t[i][2] - 1>>
    BY DEF Gapless
  <2>1. /\ Len(s) + i \in 2 .. Len(r) /\ r[Len(s) + i] = t[i]
        /\ Len(s) + i - 1 = Len(s) + (i - 1) /\ i - 1 \in 1 .. Len(t)
    BY <1>1
  <2>2. r[Len(s) + i - 1] = t[i - 1]
    BY <1>1, <2>1
  <2>3. Gapless(r)
    BY DEF r
  <2> QED
    BY <2>1, <2>2, <2>3 DEF Gapless
<1>3. t # <<>> => r[Len(r)] = t[Len(t)]
  <2>1. t # <<>> => Len(t) \in 1 .. Len(t)
    BY <1>1
  <2> QED
    BY <1>1, <2>1
<1> QED
  BY <1>2, <1>3 DEF r

LEMMA OutAppend ==
  ASSUME NEW s \in Seq(SaidBytes), NEW t \in Seq(SaidBytes), NEW b \in SaidBytes
  PROVE  /\ s \o Append(t, b) = Append(s \o t, b)
         /\ s \o t \in Seq(SaidBytes)
         /\ Append(s \o t, b)[Len(Append(s \o t, b))] = b
<1>1. s \o t \in Seq(SaidBytes) /\ <<b>> \in Seq(SaidBytes)
  BY ConcatProperties
<1>2. Append(t, b) = t \o <<b>> /\ Append(s \o t, b) = (s \o t) \o <<b>>
  BY <1>1, AppendIsConcat
<1>3. s \o (t \o <<b>>) = (s \o t) \o <<b>>
  BY <1>1, ConcatAssociative
<1>4. Append(s \o t, b)[Len(Append(s \o t, b))] = b
  BY <1>1, AppendProperties
<1> QED
  BY <1>1, <1>2, <1>3, <1>4

LEMMA NothingOut ==
  ASSUME shown' = <<>>, inBank' = <<>>
  PROVE  NoGaps' /\ GoesOnWhereItWas'
<1>1. Out' = <<>> /\ Len(<<>>) = 0
  BY DEF Out
<1> QED
  BY <1>1 DEF NoGaps, Gapless, Out, GoesOnWhereItWas

(* A step that prints nothing and hands nothing over.                       *)
LEMMA GapQuiet ==
  ASSUME GapInv, UNCHANGED <<shown, inBank, texts>>
  PROVE  GapInv'
  BY DEF GapInv, NoGaps, Gapless, GoesOnWhereItWas, Out, RestIsWhole, Unprinted

LEMMA GapRefuse ==
  ASSUME GapInv, SerialInv, Refuse, Unprinted
  PROVE  GapInv'
<1> DEFINE t == texts[1]
<1>1. t \in TextRecords /\ t.next <= t.last /\ texts \in Seq(TextRecords) /\ texts # <<>>
  BY FirstText DEF SerialInv, LineTypeOK, Unprinted, TextRecords
<1>2. texts' = [texts EXCEPT ![1] = AfterRefusal(t)] /\ UNCHANGED <<shown, inBank>>
  BY DEF Refuse, bankVars
<1>3. 1 \in DOMAIN texts /\ texts'[1] = AfterRefusal(t)
      /\ \A i \in DOMAIN texts' : i > 1 => i \in DOMAIN texts /\ texts'[i] = texts[i]
  BY <1>1, <1>2
<1>4. /\ t.last \in Nat
      /\ AfterRefusal(t) = [t EXCEPT !.next = IF t.via = "usb_puts" THEN t.last + 1
                                               ELSE t.next + 1]
  <2>1. t.last \in Nat
    BY <1>1, SerialConstants DEF TextRecords
  <2> HIDE DEF t
  <2>2. AfterRefusal(t) = [t EXCEPT !.next = IF t.via = "usb_puts" THEN t.last + 1
                                              ELSE t.next + 1]
    BY <1>1, Advance
  <2> QED
    BY <2>1, <2>2
<1>5. texts'[1].via = t.via /\ texts'[1].last = t.last
      /\ (t.via = "usb_puts" => texts'[1].next = t.last + 1)
  BY <1>1, <1>3, <1>4 DEF TextRecords
<1>6. GoesOnWhereItWas'
  BY <1>4, <1>5 DEF GoesOnWhereItWas, Unprinted
<1>7. RestIsWhole'
  BY <1>3 DEF GapInv, RestIsWhole
<1> QED
  BY <1>2, <1>6, <1>7 DEF GapInv, NoGaps, Gapless

LEMMA GapPut ==
  ASSUME GapInv, SerialInv, PutByte
  PROVE  GapInv'
<1> DEFINE t == texts[1]
           b == NextByte(t)
<1>1. /\ Unprinted /\ t \in TextRecords /\ t.next <= t.last
      /\ texts \in Seq(TextRecords) /\ texts # <<>>
  <2>1. Unprinted /\ texts \in Seq(TextRecords)
    BY DEF PutByte, SerialInv, InPrint, LineTypeOK, TextRecords
  <2> QED
    BY <2>1, FirstText DEF SerialInv, Unprinted
<1>2. /\ inBank' = IF link = "off" THEN inBank ELSE Append(inBank, b)
      /\ texts' = [texts EXCEPT ![1] = Advanced(t)] /\ shown' = shown
  BY DEF PutByte
<1>3. 1 \in DOMAIN texts /\ texts'[1] = Advanced(t)
      /\ \A i \in DOMAIN texts' : i > 1 => i \in DOMAIN texts /\ texts'[i] = texts[i]
  BY <1>1, <1>2
<1>4. RestIsWhole'
  BY <1>3 DEF GapInv, RestIsWhole
<1>5. CASE link = "off"
  BY <1>2, <1>4, <1>5, NothingOut DEF SerialInv, BankReady, GapInv
<1>6. CASE link # "off"
  <2>1. /\ shown \in Seq(SaidBytes) /\ inBank \in Seq(SaidBytes) /\ b \in SaidBytes
        /\ b = <<t.via, t.next>> /\ Advanced(t) = [t EXCEPT !.next = t.next + 1]
    BY <1>1, Advance DEF SerialInv, LineTypeOK, SaidBytes, NextByte
  <2>2. Out' = Append(Out, b) /\ Out \in Seq(SaidBytes) /\ Out'[Len(Out')] = b
    BY <1>2, <1>6, <2>1, OutAppend DEF Out
  <2>3. b[1] = "usb_puts" /\ b[2] > 1 => Out = <<>> \/ Out[Len(Out)] = <<"usb_puts", b[2] - 1>>
    BY <1>1, <2>1 DEF GapInv, GoesOnWhereItWas
  <2>4. Gapless(Out)
    BY DEF GapInv, NoGaps, Out
  <2>5. Gapless(Append(Out, b))
    BY <2>1, <2>2, <2>3, <2>4, GaplessAppend
  <2>6. NoGaps'
    BY <2>2, <2>5 DEF NoGaps, Out, Gapless
  <2>7. texts'[1].via = t.via /\ texts'[1].next - 1 = t.next
    BY <1>1, <1>3, <2>1, SerialConstants DEF TextRecords
  <2>8. GoesOnWhereItWas'
    BY <2>1, <2>2, <2>7 DEF GoesOnWhereItWas
  <2> QED
    BY <1>4, <2>6, <2>8 DEF GapInv
<1> QED
  BY <1>5, <1>6

LEMMA GapTake ==
  ASSUME GapInv, SerialInv, HostTakes
  PROVE  GapInv'
<1>1. /\ texts' = texts /\ inBank' = <<>>
      /\ shown' = IF inBank = <<>> THEN shown ELSE inBank
  BY DEF HostTakes
<1>2. CASE inBank = <<>>
  BY <1>1, <1>2, GapQuiet
<1>3. CASE inBank # <<>>
  <2>1. shown \in Seq(SaidBytes) /\ inBank \in Seq(SaidBytes)
    BY DEF SerialInv, LineTypeOK, SaidBytes
  <2>2. Out' = inBank
    BY <1>1, <1>3, <2>1, ConcatEmptySeq DEF Out
  <2>3. Gapless(inBank) /\ Out[Len(Out)] = inBank[Len(inBank)]
    BY <1>3, <2>1, GaplessSuffix DEF GapInv, NoGaps, Out
  <2>4. Out # <<>>
    <3>1. Len(Out) = Len(shown) + Len(inBank) /\ Len(shown) \in Nat /\ Len(inBank) \in Nat \ {0}
      BY <1>3, <2>1, ConcatProperties, LenProperties, EmptySeq DEF Out
    <3>2. Len(Out) # 0
      BY <3>1
    <3> QED
      BY <3>2
  <2>5. NoGaps'
    BY <2>2, <2>3 DEF NoGaps, Gapless, Out
  <2>6. GoesOnWhereItWas'
    BY <1>1, <2>2, <2>3, <2>4 DEF GapInv, GoesOnWhereItWas, Unprinted
  <2>7. RestIsWhole'
    BY <1>1 DEF GapInv, RestIsWhole
  <2> QED
    BY <2>5, <2>6, <2>7 DEF GapInv
<1> QED
  BY <1>2, <1>3

LEMMA GapEdit ==
  ASSUME GapInv, SerialInv, mcucli_putc
  PROVE  GapInv'
<1>1. UNCHANGED <<shown, inBank>>
  BY DEF mcucli_putc, bankVars
<1>2. texts' \in Seq(TextRecords) /\ \A i \in DOMAIN texts' : texts'[i].next = 1
  <2>1. CASE texts' \in Prints(value % 256)
    BY <2>1, PrintsTexts
  <2>2. CASE texts' = <<>>
    BY <2>2
  <2>3. texts = <<>>
    BY DEF mcucli_putc, SerialInv, InPrint
  <2> QED
    BY <2>1, <2>2, <2>3 DEF mcucli_putc
<1>3. texts' # <<>> => texts'[1].next = 1
  <2>1. texts' # <<>> => 1 \in DOMAIN texts'
    BY <1>2, LenProperties, EmptySeq
  <2> QED
    BY <1>2, <2>1
<1>4. NoGaps'
  BY <1>1 DEF GapInv, NoGaps, Gapless
<1>5. GoesOnWhereItWas'
  BY <1>3 DEF GoesOnWhereItWas, Unprinted
<1>6. RestIsWhole'
  BY <1>2 DEF RestIsWhole
<1> QED
  BY <1>4, <1>5, <1>6 DEF GapInv

LEMMA GapDone ==
  ASSUME GapInv, SerialInv, TextDone
  PROVE  GapInv'
<1>1. UNCHANGED <<shown, inBank>> /\ texts \in Seq(TextRecords)
  BY DEF TextDone, bankVars, SerialInv, LineTypeOK, TextRecords
<1>2. CASE texts = <<>>
  BY <1>1, <1>2, GapQuiet DEF TextDone
<1>3. CASE texts # <<>>
  <2>1. /\ texts' = Tail(texts) /\ Len(texts) \in Nat /\ DOMAIN texts = 1 .. Len(texts)
        /\ DOMAIN texts' = 1 .. Len(texts) - 1
        /\ \A i \in 1 .. Len(texts) - 1 : texts'[i] = texts[i + 1]
    <3>1. texts' = Tail(texts)
      BY <1>3 DEF TextDone
    <3>2. /\ Tail(texts) \in Seq(TextRecords) /\ Len(Tail(texts)) = Len(texts) - 1
          /\ \A i \in 1 .. Len(Tail(texts)) : Tail(texts)[i] = texts[i + 1]
      BY <1>1, <1>3, HeadTailProperties
    <3> QED
      BY <1>1, <3>1, <3>2, LenProperties
  <2>2. \A i \in DOMAIN texts' : texts'[i].next = 1
    <3>1. \A i \in 1 .. Len(texts) - 1 : i + 1 \in 1 .. Len(texts) /\ i + 1 > 1
      BY <2>1
    <3> QED
      BY <2>1, <3>1 DEF GapInv, RestIsWhole
  <2>3. texts' # <<>> => 1 \in DOMAIN texts'
    <3>1. texts' \in Seq(TextRecords)
      BY <1>1, <1>3, <2>1, HeadTailProperties
    <3> QED
      BY <3>1, LenProperties, EmptySeq
  <2>4. NoGaps'
    BY <1>1 DEF GapInv, NoGaps, Gapless
  <2>5. GoesOnWhereItWas'
    BY <2>2, <2>3 DEF GoesOnWhereItWas, Unprinted
  <2>6. RestIsWhole'
    BY <2>2 DEF RestIsWhole
  <2> QED
    BY <2>4, <2>5, <2>6 DEF GapInv
<1> QED
  BY <1>2, <1>3

LEMMA GapStep == GapInv /\ SerialInv /\ [SerialNext]_serialVars => GapInv'
<1> SUFFICES ASSUME GapInv, SerialInv, [SerialNext]_serialVars PROVE GapInv'
  OBVIOUS
<1>1. CASE mcucli_putc
  BY <1>1, GapEdit
<1>2. CASE CheckLine \/ WaitUntilReady
  <2>1. Unprinted
    BY <1>2 DEF CheckLine, WaitUntilReady, Printing, Unprinted, SerialInv, InPrint
  <2>2. Refuse \/ UNCHANGED <<shown, inBank, texts>>
    BY <1>2 DEF CheckLine, WaitUntilReady, bankVars
  <2> QED
    BY <2>1, <2>2, GapRefuse, GapQuiet
<1>3. CASE PutByte
  BY <1>3, GapPut
<1>4. CASE TextDone
  BY <1>4, GapDone
<1>5. CASE HostTakes
  BY <1>5, GapTake
<1>6. CASE \/ usb_read_byte \/ NothingRead \/ usb_task \/ FinishFlush \/ HostTypes
           \/ ConfigurationChanged \/ ControlRequest \/ UNCHANGED serialVars
  <2>1. UNCHANGED <<shown, inBank, texts>>
    BY <1>6 DEF usb_read_byte, NothingRead, usb_task, FinishFlush, HostTypes,
                ConfigurationChanged, ControlRequest, serialVars, bankVars
  <2> QED
    BY <2>1, GapQuiet
<1>7. CASE usb_disable \/ LinkLost
  <2>1. texts' = texts /\ shown' = <<>> /\ inBank' = <<>>
    BY <1>7 DEF usb_disable, LinkLost, LineOff
  <2> QED
    BY <2>1, NothingOut DEF GapInv, RestIsWhole
<1>8. CASE WatchdogFires \/ ComesBack
  <2>1. texts' = <<>> /\ shown' = <<>> /\ inBank' = <<>>
    BY <1>8 DEF WatchdogFires, ComesBack, StartsOver, LineOff
  <2> QED
    BY <2>1, NothingOut DEF GapInv, RestIsWhole
<1> QED
  BY <1>1, <1>2, <1>3, <1>4, <1>5, <1>6, <1>7, <1>8
  DEF SerialNext, Loop, Edit, Host

(* As long as the line does not go off, a host has of each string of        *)
(* usb_puts a front part without a gap: once a byte is refused none of the  *)
(* rest is written (main.c:11-18).                                          *)
THEOREM SerialNoGaps == SerialSpec => []NoGaps
<1>1. SerialInit => SerialInv /\ GapInv
  <2> SUFFICES ASSUME SerialInit PROVE SerialInv /\ GapInv
    OBVIOUS
  <2>1. SerialInv
    BY StartedIsFine DEF SerialInit
  <2>2. shown = <<>> /\ inBank = <<>> /\ texts = <<>> /\ <<>> \o <<>> = <<>> /\ Len(<<>>) = 0
    BY DEF SerialInit, Started
  <2>3. NoGaps /\ GoesOnWhereItWas /\ RestIsWhole
    BY <2>2 DEF NoGaps, Gapless, Out, GoesOnWhereItWas, RestIsWhole
  <2> QED
    BY <2>1, <2>3 DEF GapInv
<1>2. GapInv => NoGaps
  BY DEF GapInv
<1> QED
  BY <1>1, <1>2, SerialStep, GapStep, PTL DEF SerialSpec
=============================================================================
