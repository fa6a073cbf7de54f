SPECIFICATION Spec
CONSTANTS
NPROC = 7
NOFILE = 6
NFILE = 7
NINODE = 6
NINUM = 16
NBLOCK = 20
BSIZE = 4
NDIRECT = 2
NINDIRECT = 3
DIRSIZ = 14
MAXPATH = 8
MAXOPBLOCKS = 10
PIPESIZE = 3
NPIPE = 3
NPAGE = 54
PGSIZE = 16
TABLES = 2
Image = 2
N2 = 2
MAXARGS = 6
Chosen <- AllTests
INVARIANT TestsPass RefsExact NothingLost
