CONSTANTS
  Programs = {"passfd", "readbuff", "buffermap"}
  Procs = {1, 2, 3}
  Owner = 1
  Fd <- MCFd
  Buf <- MCBuf
  Data <- MCData
  Garbage = {0, 9}
SPECIFICATION Spec
INVARIANTS HandOver 
