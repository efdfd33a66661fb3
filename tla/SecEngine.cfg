CONSTANTS
    biL = 8
    ciL = 4
    MAX_BIGNUM_DIGITS = 20
    ZC_SEC_RSA_KEY_LEN = 256
    SmallPrimes <- MCSmallPrimes
    FRng <- MCFRng
    Magnitudes <- MCMagnitudes
    Dividends <- MCDividends
    Divisors <- MCDivisors
    Moduli <- MCModuli
    Bases <- MCBases
    Exponents <- MCExponents
    Candidates <- MCCandidates
    PrimeBits <- MCPrimeBits
    RsaPair <- MCRsaPair
    Texts <- MCTexts
    Rand <- MCRand
    SessionKey <- MCSessionKey
    IV <- MCIV
    Blocks <- MCBlocks
    Published <- MCPublished
    Payloads <- MCPayloads
    Bursts <- MCBursts
    TokenKey <- MCSessionKey
    Sessions <- MCSessions
    Transports <- MCTransports
    Stale <- MCStale
    Macs <- MCMacs
    DeviceIds <- MCDeviceIds
    Domains <- MCDomains
    RandWords <- MCRandWords
    LocalIp <- MCLocalIp

SPECIFICATION MessagesSpec

PROPERTIES
    NumbersAreExact
    AesIsTheStandard
    SealedIsOpened
    MessagesAreIntact
