\* Files of up to four lines, every search among four chunks, answers of up to
\* four events cut anywhere, two requests for codes and two submissions,
\* two changes of test questions in two libraries, two pictures and two mails
\* of the page of login.  A part ends when its work is done.
SPECIFICATION Spec
CONSTANTS
  MaxLines = 4
  Sizes = {4, 6}
  Overlaps = {0, 2}
  OcrMax = 1
  Piece = {1, 2, 3, 4}
  DocOf <- Documents
  IndexOf <- Places
  Picture = {4}
  Pool = 3
  TopK = 2
  MaxSent = 4
  Sender = {r1, r2}
  Visitor = {v1, v2}
  MaxDaily = 2
  MaxFails = 2
  MaxCodes = 2
  MaxEntries = 2
  MaxFaults = 1
  Shelf = {s1, s2}
  Question = {q1, q2}
  Desk = {1, 2}
  MaxLists = 2
  MaxCases = 3
  MaxEdits = 2
  MaxJumps = 1
  Cool = 2
  MaxPictures = 2
  MaxSends = 2
  MaxSubmits = 1
SYMMETRY Interchangeable
CHECK_DEADLOCK FALSE
INVARIANT TextFaithful
INVARIANT SearchSound
INVARIANT StreamWhole
INVARIANT AcceptedOnce
INVARIANT EvaluationSound
INVARIANT CodesAskable
PROPERTY CodeKept
